---- MODULE Spec2Model ----
(***************************************************************************)
(* PPD cache of libppd (ppd/ppd-cache.c): construction of the cache from a *)
(* device description, its line-oriented file format (writer and reader),  *)
(* and the process-wide last status message.                               *)
(*                                                                         *)
(* Strings are sequences of one-character strings, so that the character   *)
(* level functions of the source (atoi, case-insensitive comparison,       *)
(* prefix comparison, ppdPwgUnppdizeName) are computed as the code         *)
(* computes them.  Bytes of the binary part of a cache file are strings    *)
(* too: "x00" .. "x44" for binary octets, the character itself for text.   *)
(***************************************************************************)
EXTENDS Integers, Sequences, FiniteSets, TLC

(***************************************************************************)
(* Characters and C string functions                                       *)
(***************************************************************************)
UpperChars == <<"A","B","C","D","E","F","G","H","I","J","K","L","M","N","O","P","Q","R","S","T","U","V","W","X","Y","Z">>

LowerChars == <<"a","b","c","d","e","f","g","h","i","j","k","l","m","n","o","p","q","r","s","t","u","v","w","x","y","z">>

DigitChars == <<"0","1","2","3","4","5","6","7","8","9">>

\* the terminating NUL a C string read one past its last character yields
NUL == "x00"

UpperSet == {UpperChars[i] : i \in 1..Len(UpperChars)}

LowerSet == {LowerChars[i] : i \in 1..Len(LowerChars)}

DigitSet == {DigitChars[i] : i \in 1..Len(DigitChars)}

\* the lower-case letter of every upper-case letter
LowerOf == [c \in UpperSet |-> LowerChars[CHOOSE i \in 1..Len(UpperChars) : UpperChars[i] = c]]

IndexOf(c, s) ==
  IF \E i \in 1..Len(s) : s[i] = c
    THEN CHOOSE i \in 1..Len(s) : s[i] = c
    ELSE 0

ppd_isupper(c) == c \in UpperSet

ppd_islower(c) == c \in LowerSet

isdigit(c) == c \in DigitSet

ppd_isalnum(c) == ppd_isupper(c) \/ ppd_islower(c) \/ isdigit(c)

ppd_isspace(c) == c \in {" ", "\t", "\n", "\r"}

tolower(c) == IF ppd_isupper(c) THEN LowerOf[c] ELSE c

\* s[i] as C reads it: the terminating NUL at and past the end
At(s, i) == IF i >= 1 /\ i <= Len(s) THEN s[i] ELSE NUL

Lower(s) == [i \in 1..Len(s) |-> tolower(s[i])]

Take(s, n) == IF Len(s) <= n THEN s ELSE SubSeq(s, 1, n)

Drop(s, n) == IF Len(s) <= n THEN <<>> ELSE SubSeq(s, n + 1, Len(s))

\* _ppd_strcasecmp(a, b) == 0
ppd_strcasecmp(a, b) ==
  Len(a) = Len(b) /\ \A i \in 1..Len(a) : tolower(a[i]) = tolower(b[i])

\* _ppd_strncasecmp(a, b, n) == 0
ppd_strncasecmp(a, b, n) == Lower(Take(a, n)) = Lower(Take(b, n))

\* strncmp(a, b, n) == 0
strncmp(a, b, n) == Take(a, n) = Take(b, n)

RECURSIVE AtoiDigits(_, _, _)
AtoiDigits(s, i, acc) ==
  IF isdigit(At(s, i))
    THEN AtoiDigits(s, i + 1, acc * 10 + (IndexOf(s[i], DigitChars) - 1))
    ELSE acc

RECURSIVE SkipSpace(_, _)
SkipSpace(s, i) == IF ppd_isspace(At(s, i)) THEN SkipSpace(s, i + 1) ELSE i

\* atoi / strtol(s, NULL, 10): leading white space, an optional sign, then
\* the longest run of digits; 0 when there is none
atoi(s) ==
  LET i == SkipSpace(s, 1)
  IN  IF At(s, i) = "-" THEN 0 - AtoiDigits(s, i + 1, 0)
      ELSE IF At(s, i) = "+" THEN AtoiDigits(s, i + 1, 0)
      ELSE AtoiDigits(s, i, 0)

RECURSIVE DecDigits(_)
DecDigits(n) ==
  IF n < 10 THEN <<DigitChars[n + 1]>>
  ELSE Append(DecDigits(n \div 10), DigitChars[(n % 10) + 1])

\* printf("%d", n)
FormatInt(n) == IF n < 0 THEN <<"-">> \o DecDigits(0 - n) ELSE DecDigits(n)

\* sscanf("%d") of one white-space delimited field: a sign and digits must
\* lead the field
ScanIntOk(tok) ==
  \/ isdigit(At(tok, 1))
  \/ At(tok, 1) \in {"-", "+"} /\ isdigit(At(tok, 2))

(***************************************************************************)
(* ppdPwgUnppdizeName                                                      *)
(***************************************************************************)
\* the "already lowercase, use as-is" scan: TRUE when no character from the
\* second on breaks the scan
RECURSIVE UnppdizeAsIs(_, _, _)
UnppdizeAsIs(ppd, i, dashchars) ==
  IF i > Len(ppd) THEN TRUE
  ELSE IF \/ ppd_isupper(ppd[i])
          \/ IndexOf(ppd[i], dashchars) > 0
          \/ ppd[i] = "-" /\ ppd[i - 1] = "-"
          \/ ppd[i] = "-" /\ At(ppd, i + 1) = NUL
    THEN FALSE
    ELSE UnppdizeAsIs(ppd, i + 1, dashchars)

\* the conversion loop; st = [out, nodash, firstchar]
RECURSIVE UnppdizeLoop(_, _, _, _)
UnppdizeLoop(ppd, i, dashchars, st) ==
  IF i > Len(ppd) THEN st.out
  ELSE
    LET c  == ppd[i]
        n  == At(ppd, i + 1)
        s1 == IF ppd_isalnum(c)
                THEN [out |-> Append(st.out, tolower(c)), nodash |-> FALSE]
              ELSE IF c = "-" \/ IndexOf(c, dashchars) > 0
                THEN IF ~st.nodash \/ (st.firstchar /\ c = "-" /\ isdigit(n))
                       THEN [out |-> Append(st.out, "-"), nodash |-> TRUE]
                       ELSE [out |-> st.out, nodash |-> st.nodash]
              ELSE [out |-> Append(st.out, c), nodash |-> FALSE]
        s2 == IF ~s1.nodash
                THEN IF ~ppd_isupper(c) /\ ppd_isalnum(c) /\ ppd_isupper(n)
                       THEN [out |-> Append(s1.out, "-"), nodash |-> TRUE]
                     ELSE IF ~isdigit(c) /\ isdigit(n)
                       THEN [out |-> Append(s1.out, "-"), nodash |-> TRUE]
                     ELSE s1
                ELSE s1
    IN  UnppdizeLoop(ppd, i + 1, dashchars,
                     [out |-> s2.out, nodash |-> s2.nodash, firstchar |-> FALSE])

RECURSIVE StripTrailingDashes(_)
StripTrailingDashes(s) ==
  IF Len(s) > 0 /\ s[Len(s)] = "-"
    THEN StripTrailingDashes(SubSeq(s, 1, Len(s) - 1))
    ELSE s

ppdPwgUnppdizeName(ppd, dashchars) ==
  IF ppd_islower(At(ppd, 1)) /\ UnppdizeAsIs(ppd, 2, dashchars)
    THEN ppd
    ELSE StripTrailingDashes(
           UnppdizeLoop(ppd, 1, dashchars,
                        [out |-> <<>>, nodash |-> TRUE, firstchar |-> TRUE]))

(***************************************************************************)
(* Values shared by the cache functions                                    *)
(***************************************************************************)
\* a NULL char pointer
NullStr == <<"(null)">>

\* a NULL ppd_cache_t pointer
NullCache == [null |-> TRUE]

\* a NULL ipp_t pointer; a non-NULL one is the name of an attribute set
NullIpp == "NULL"

PPD_CACHE_VERSION == 11

PPD_MAX_NAME == 41

Abs(x) == IF x < 0 THEN 0 - x ELSE x

\* a comparison that takes a difference of exactly 50 units as equivalent
PPD_PWG_EQUIVALENT_Inclusive(x, y) == Abs(x - y) <= 50

\* _PPD_PWG_EQUIVALENT(x, y)
PPD_PWG_EQUIVALENT(x, y) == Abs(x - y) < 50

\* a length of p points (1/72 inch).  The device description holds lengths
\* as floating-point numbers of points; the model counts them in 1/635
\* point, of which 18 make one unit of 1/2540 inch.
Pt(p) == 635 * p

\* PWG_FROM_POINTS(n) = (int)((n * 2540 + 36) / 72) for n in points; with n
\* counted in 1/635 point, n * 2540 is 4 * n
PWG_FROM_POINTS(n) == (4 * n + 36) \div 72

(***************************************************************************)
(* Standard media table (pwgMediaForSize, pwgFormatSizeName of libcups)    *)
(***************************************************************************)
PWG_EPSILON == 176

StandardMedia ==
  << [pwg |-> <<"n","a","_","l","e","t","t","e","r","_","8",".","5","x","1","1","i","n">>, legacy |-> <<"n","a","-","l","e","t","t","e","r">>, ppd |-> <<"L","e","t","t","e","r">>,
      width |-> 21590, length |-> 27940],
     [pwg |-> <<"i","s","o","_","a","4","_","2","1","0","x","2","9","7","m","m">>, legacy |-> <<"i","s","o","-","a","4">>, ppd |-> <<"A","4">>,
      width |-> 21000, length |-> 29700],
     [pwg |-> <<"n","a","_","i","n","d","e","x","-","4","x","6","_","4","x","6","i","n">>, legacy |-> NullStr, ppd |-> <<"4","x","6">>,
      width |-> 10160, length |-> 15240],
     [pwg |-> <<"j","i","s","_","e","x","e","c","_","2","1","6","x","3","3","0","m","m">>, legacy |-> NullStr, ppd |-> <<"2","1","6","x","3","3","0","m","m">>,
      width |-> 21600, length |-> 33000],
     [pwg |-> <<"n","a","_","f","o","o","l","s","c","a","p","_","8",".","5","x","1","3","i","n">>, legacy |-> NullStr, ppd |-> <<"F","a","n","F","o","l","d","G","e","r","m","a","n","L","e","g","a","l">>,
      width |-> 21590, length |-> 33020],
     [pwg |-> <<"o","e","_","p","h","o","t","o","-","l","_","3",".","5","x","5","i","n">>, legacy |-> NullStr, ppd |-> <<"3",".","5","x","5">>,
      width |-> 8890, length |-> 12700] >>

Pad(s, n) == IF Len(s) < n THEN [i \in 1..(n - Len(s)) |-> "0"] \o s ELSE s

\* pwg_format_inches: 1/2540 inch to inches with up to three decimals
pwg_format_inches(val) ==
  LET f0   == ((val % 2540) * 1000 + 1270) \div 2540
      int  == IF f0 >= 1000 THEN val \div 2540 + 1 ELSE val \div 2540
      frac == IF f0 >= 1000 THEN f0 - 1000 ELSE f0
  IN  IF frac = 0 THEN FormatInt(int)
      ELSE IF frac % 10 # 0 THEN FormatInt(int) \o <<".">> \o Pad(FormatInt(frac), 3)
      ELSE IF frac % 100 # 0
        THEN FormatInt(int) \o <<".">> \o Pad(FormatInt(frac \div 10), 2)
      ELSE FormatInt(int) \o <<".">> \o FormatInt(frac \div 100)

\* pwg_format_millimeters: 1/2540 inch (1/100 mm) to millimeters
pwg_format_millimeters(val) ==
  LET int  == val \div 100
      frac == val % 100
  IN  IF frac = 0 THEN FormatInt(int)
      ELSE IF frac % 10 # 0 THEN FormatInt(int) \o <<".">> \o Pad(FormatInt(frac), 2)
      ELSE FormatInt(int) \o <<".">> \o FormatInt(frac \div 10)

\* pwgFormatSizeName(keyword, keysize, prefix, name, width, length, NULL);
\* prefix NullStr selects "oe" (inches) or "om" (millimeters), name NullStr
\* the self-describing name made of the dimensions
pwgFormatSizeName(prefix, name, width, length) ==
  LET inches == (width % 635) = 0 /\ (length % 635) = 0
      pre    == IF prefix # NullStr THEN prefix
                ELSE IF inches THEN <<"o","e">> ELSE <<"o","m">>
      dims   == IF inches
                  THEN pwg_format_inches(width) \o <<"x">> \o
                       pwg_format_inches(length) \o <<"i","n">>
                  ELSE pwg_format_millimeters(width) \o <<"x">> \o
                       pwg_format_millimeters(length) \o <<"m","m">>
  IN  pre \o <<"_">> \o (IF name = NullStr THEN dims ELSE name) \o <<"_">> \o dims

NullMedia == [null |-> TRUE]

\* index of the standard size nearest to width x length within the epsilon
RECURSIVE NearSize(_, _, _, _, _, _)
NearSize(width, length, i, best, best_dw, best_dl) ==
  IF i > Len(StandardMedia) THEN best
  ELSE
    LET dw == Abs(StandardMedia[i].width - width)
        dl == Abs(StandardMedia[i].length - length)
    IN  IF dw = 0 /\ dl = 0 THEN i
        ELSE IF dw <= best_dw /\ dl <= best_dl
          THEN NearSize(width, length, i + 1, i, dw, dl)
          ELSE NearSize(width, length, i + 1, best, best_dw, best_dl)

\* pwgMediaForSize(width, length): the nearest standard size, else a
\* "custom_" size of the given dimensions; NULL for dimensions <= 0
pwgMediaForSize(width, length) ==
  IF width <= 0 \/ length <= 0 THEN NullMedia
  ELSE
    LET i == NearSize(width, length, 1, 0, PWG_EPSILON, PWG_EPSILON)
    IN  IF i > 0 THEN StandardMedia[i]
        ELSE [pwg    |-> pwgFormatSizeName(<<"c","u","s","t","o","m">>, NullStr, width, length),
              width  |-> width, length |-> length]

(***************************************************************************)
(* ppdCacheCreateWithPPD: the mapping tables                               *)
(*                                                                         *)
(* A device description (ppd_file_t) is a record                           *)
(*   sizes    : sequence of [name, width, length, left, bottom, right,     *)
(*              top] in 1/635 point,                                       *)
(*   options  : sequence of [keyword, choices], choices a sequence of      *)
(*              choice names,                                              *)
(*   attrs    : sequence of [name, value] (vendor attributes),             *)
(*   variable_sizes, custom_min, custom_max, custom_margins,               *)
(*   manual_copies.                                                        *)
(***************************************************************************)
NullOption == [null |-> TRUE]

\* ppdFindOption(ppd, keyword)
ppdFindOption(ppd, keyword) ==
  IF \E i \in 1..Len(ppd.options) : ppd.options[i].keyword = keyword
    THEN ppd.options[CHOOSE i \in 1..Len(ppd.options) :
                       /\ ppd.options[i].keyword = keyword
                       /\ \A j \in 1..(i - 1) : ppd.options[j].keyword # keyword]
    ELSE NullOption

NullAttr == [null |-> TRUE]

\* ppdFindAttr(ppd, name, NULL)
ppdFindAttr(ppd, name) ==
  IF \E i \in 1..Len(ppd.attrs) : ppd.attrs[i].name = name
    THEN ppd.attrs[CHOOSE i \in 1..Len(ppd.attrs) :
                     /\ ppd.attrs[i].name = name
                     /\ \A j \in 1..(i - 1) : ppd.attrs[j].name # name]
    ELSE NullAttr

\* the name given to a page size: the standard name when there is one that
\* no earlier entry uses, otherwise a vendor name made from the PPD name
SizeKeyword(sizes, ppd_size, media0) ==
  IF /\ \A j \in 1..Len(sizes) : sizes[j].pwg # media0.pwg
     /\ ~strncmp(media0.pwg, <<"c","u","s","t","o","m","_">>, 7)
    THEN [name |-> media0.pwg, known |-> TRUE]
    ELSE [name |-> pwgFormatSizeName(NullStr,
                     Take(ppdPwgUnppdizeName(ppd_size.name, <<"_",".">>), PPD_MAX_NAME - 1),
                     PWG_FROM_POINTS(ppd_size.width),
                     PWG_FROM_POINTS(ppd_size.length)),
          known |-> FALSE]

\* "similar": same borderless-ness and equivalent dimensions
SimilarSize(o, e) ==
  /\ (o.left = 0 /\ o.bottom = 0 /\ o.right = 0 /\ o.top = 0)
       = (e.bottom = 0 /\ e.top = 0 /\ e.left = 0 /\ e.right = 0)
  /\ PPD_PWG_EQUIVALENT(o.width, e.width)
  /\ PPD_PWG_EQUIVALENT(o.length, e.length)

\* a scan that lets the larger imageable length decide alone
PlaceSizeByImageable(sizes, e, new_known_pwg) ==
  IF \E k \in 1..Len(sizes) : SimilarSize(sizes[k], e)
    THEN LET k == CHOOSE k \in 1..Len(sizes) :
                    /\ SimilarSize(sizes[k], e)
                    /\ \A j \in 1..(k - 1) : ~SimilarSize(sizes[j], e)
         IN  IF e.length - e.top - e.bottom
                  > sizes[k].length - sizes[k].top - sizes[k].bottom
               THEN [sizes EXCEPT ![k] = e]
               ELSE sizes
    ELSE Append(sizes, e)

\* the scan for a similar entry (it stops at the first one) and the save
PlaceSize(sizes, e, new_known_pwg) ==
  IF \E k \in 1..Len(sizes) : SimilarSize(sizes[k], e)
    THEN LET k == CHOOSE k \in 1..Len(sizes) :
                    /\ SimilarSize(sizes[k], e)
                    /\ \A j \in 1..(k - 1) : ~SimilarSize(sizes[j], e)
         IN  IF new_known_pwg \/
                (/\ ~(~strncmp(sizes[k].pwg, <<"o","e","_">>, 3) /\ ~strncmp(sizes[k].pwg, <<"o","m","_">>, 3))
                 /\ e.length - e.top - e.bottom
                      > sizes[k].length - sizes[k].top - sizes[k].bottom)
               THEN [sizes EXCEPT ![k] = e]
               ELSE sizes
    ELSE Append(sizes, e)

AddSizeMedia(sizes, ppd_size, media0, kw) ==
  PlaceSize(sizes,
            [pwg |-> kw.name, ppd |-> ppd_size.name,
             width |-> media0.width, length |-> media0.length,
             left |-> PWG_FROM_POINTS(ppd_size.left),
             bottom |-> PWG_FROM_POINTS(ppd_size.bottom),
             right |-> PWG_FROM_POINTS(ppd_size.width - ppd_size.right),
             top |-> PWG_FROM_POINTS(ppd_size.length - ppd_size.top)],
            kw.known)

\* one iteration of the size loop of ppdCacheCreateWithPPD: sizes is the
\* table built so far, ppd_size the device page size considered
AddSize(sizes, ppd_size) ==
  IF ppd_strcasecmp(ppd_size.name, <<"C","u","s","t","o","m">>) THEN sizes
  ELSE IF pwgMediaForSize(PWG_FROM_POINTS(ppd_size.width),
                          PWG_FROM_POINTS(ppd_size.length)) = NullMedia THEN sizes
  ELSE AddSizeMedia(sizes, ppd_size,
                    pwgMediaForSize(PWG_FROM_POINTS(ppd_size.width),
                                    PWG_FROM_POINTS(ppd_size.length)),
                    SizeKeyword(sizes, ppd_size,
                                pwgMediaForSize(PWG_FROM_POINTS(ppd_size.width),
                                                PWG_FROM_POINTS(ppd_size.length))))

RECURSIVE BuildSizes(_, _, _)
BuildSizes(ppd_sizes, i, sizes) ==
  IF i > Len(ppd_sizes) THEN sizes
  ELSE BuildSizes(ppd_sizes, i + 1, AddSize(sizes, ppd_sizes[i]))

\* the InputSlot classification of one choice name
SourceKeyword(choice) ==
  IF ppd_strncasecmp(choice, <<"A","u","t","o">>, 4) \/ ppd_strcasecmp(choice, <<"D","e","f","a","u","l","t">>)
    THEN <<"a","u","t","o">>
  ELSE IF ppd_strcasecmp(choice, <<"C","a","s","s","e","t","t","e">>) THEN <<"m","a","i","n">>
  ELSE IF ppd_strcasecmp(choice, <<"P","h","o","t","o","T","r","a","y">>) THEN <<"p","h","o","t","o">>
  ELSE IF ppd_strcasecmp(choice, <<"C","D","T","r","a","y">>) THEN <<"d","i","s","c">>
  ELSE IF \/ ppd_strncasecmp(choice, <<"M","u","l","t","i","p","u","r","p","o","s","e">>, 12)
          \/ ppd_strcasecmp(choice, <<"M","P">>)
          \/ ppd_strcasecmp(choice, <<"M","P","T","r","a","y">>)
    THEN <<"b","y","-","p","a","s","s","-","t","r","a","y">>
  ELSE IF ppd_strcasecmp(choice, <<"L","a","r","g","e","C","a","p","a","c","i","t","y">>) THEN <<"l","a","r","g","e","-","c","a","p","a","c","i","t","y">>
  ELSE IF ppd_strncasecmp(choice, <<"L","o","w","e","r">>, 5) THEN <<"b","o","t","t","o","m">>
  ELSE IF ppd_strncasecmp(choice, <<"M","i","d","d","l","e">>, 6) THEN <<"m","i","d","d","l","e">>
  ELSE IF ppd_strncasecmp(choice, <<"U","p","p","e","r">>, 5) THEN <<"t","o","p">>
  ELSE IF ppd_strncasecmp(choice, <<"S","i","d","e">>, 4) THEN <<"s","i","d","e">>
  ELSE IF ppd_strcasecmp(choice, <<"R","o","l","l">>) THEN <<"m","a","i","n","-","r","o","l","l">>
  ELSE ppdPwgUnppdizeName(choice, <<"_">>)

BuildSources(choices) ==
  [i \in 1..Len(choices) |->
     [pwg |-> SourceKeyword(choices[i]), ppd |-> choices[i]]]

\* standard_types[]: match_length 0 stands for -1 (match the entire string)
standard_types ==
  << [ppd_name |-> <<"A","u","t","o">>,       match_length |-> 4,  pwg_name |-> <<"a","u","t","o">>],
     [ppd_name |-> <<"A","n","y">>,        match_length |-> 0,  pwg_name |-> <<"a","u","t","o">>],
     [ppd_name |-> <<"D","e","f","a","u","l","t">>,    match_length |-> 0,  pwg_name |-> <<"a","u","t","o">>],
     [ppd_name |-> <<"C","a","r","d">>,       match_length |-> 4,  pwg_name |-> <<"c","a","r","d","s","t","o","c","k">>],
     [ppd_name |-> <<"E","n","v">>,        match_length |-> 3,  pwg_name |-> <<"e","n","v","e","l","o","p","e">>],
     [ppd_name |-> <<"G","l","o","s","s">>,      match_length |-> 5,  pwg_name |-> <<"p","h","o","t","o","g","r","a","p","h","i","c","-","g","l","o","s","s","y">>],
     [ppd_name |-> <<"H","i","g","h","G","l","o","s","s">>,  match_length |-> 0,  pwg_name |-> <<"p","h","o","t","o","g","r","a","p","h","i","c","-","h","i","g","h","-","g","l","o","s","s">>],
     [ppd_name |-> <<"M","a","t","t","e">>,      match_length |-> 0,  pwg_name |-> <<"p","h","o","t","o","g","r","a","p","h","i","c","-","m","a","t","t","e">>],
     [ppd_name |-> <<"P","l","a","i","n">>,      match_length |-> 5,  pwg_name |-> <<"s","t","a","t","i","o","n","e","r","y">>],
     [ppd_name |-> <<"C","o","a","t","e","d">>,     match_length |-> 6,  pwg_name |-> <<"s","t","a","t","i","o","n","e","r","y","-","c","o","a","t","e","d">>],
     [ppd_name |-> <<"I","n","k","j","e","t">>,     match_length |-> 0,  pwg_name |-> <<"s","t","a","t","i","o","n","e","r","y","-","i","n","k","j","e","t">>],
     [ppd_name |-> <<"L","e","t","t","e","r","h","e","a","d">>, match_length |-> 0,  pwg_name |-> <<"s","t","a","t","i","o","n","e","r","y","-","l","e","t","t","e","r","h","e","a","d">>],
     [ppd_name |-> <<"P","r","e","p","r","i","n","t">>,   match_length |-> 8,  pwg_name |-> <<"s","t","a","t","i","o","n","e","r","y","-","p","r","e","p","r","i","n","t","e","d">>],
     [ppd_name |-> <<"R","e","c","y","c","l","e","d">>,   match_length |-> 0,  pwg_name |-> <<"s","t","a","t","i","o","n","e","r","y","-","r","e","c","y","c","l","e","d">>],
     [ppd_name |-> <<"T","r","a","n","s","p","a","r","e","n">>, match_length |-> 10, pwg_name |-> <<"t","r","a","n","s","p","a","r","e","n","c","y">>] >>

\* does choice match standard_types[j]?
TypeMatches(choice, j) ==
  IF standard_types[j].match_length <= 0
    THEN ppd_strcasecmp(choice, standard_types[j].ppd_name)
    ELSE ppd_strncasecmp(choice, standard_types[j].ppd_name,
                         standard_types[j].match_length)

\* first pass: the last matching standard type gives the name
TypeFirstPass(choice) ==
  LET ms == {j \in 1..Len(standard_types) : TypeMatches(choice, j)}
  IN  IF ms = {} THEN ppdPwgUnppdizeName(choice, <<"_">>)
      ELSE standard_types[CHOOSE j \in ms : \A k \in ms : k <= j].pwg_name

\* match_counts[j] after the first pass and the merge of the three "auto" rows
MatchCount(choices, j) ==
  LET cnt(k) == Cardinality({i \in 1..Len(choices) : TypeMatches(choices[i], k)})
  IN  IF j <= 3 THEN cnt(1) + cnt(2) + cnt(3) ELSE cnt(j)

\* second pass over one entry: rows are visited in order, and each row whose
\* count exceeds 1 and whose name equals the entry's current name replaces it
RECURSIVE TypeSecondPass(_, _, _, _)
TypeSecondPass(choices, choice, pwg, j) ==
  IF j > Len(standard_types) THEN pwg
  ELSE IF MatchCount(choices, j) > 1 /\ pwg = standard_types[j].pwg_name
    THEN TypeSecondPass(choices, choice, ppdPwgUnppdizeName(choice, <<"_">>), j + 1)
    ELSE TypeSecondPass(choices, choice, pwg, j + 1)

BuildTypes(choices) ==
  [i \in 1..Len(choices) |->
     [pwg |-> TypeSecondPass(choices, choices[i], TypeFirstPass(choices[i]), 1),
      ppd |-> choices[i]]]

BuildBins(choices) ==
  [i \in 1..Len(choices) |->
     [pwg |-> ppdPwgUnppdizeName(choices[i], <<"_">>), ppd |-> choices[i]]]

(***************************************************************************)
(* Text and binary content of a cache file                                 *)
(*                                                                         *)
(* A file is [header, lines, tail]: the first line, the following text     *)
(* lines (each without its newline), and the raw bytes that follow the     *)
(* last text line (the IPP attribute blob and whatever comes after it).    *)
(***************************************************************************)
LF == "\n"

Magic == <<"#","C","U","P","S","-","P","P","D","-","C","A","C","H","E","-">>

RECURSIVE Join(_, _)
\* the strings of parts separated by sep
Join(parts, sep) ==
  IF Len(parts) = 0 THEN <<>>
  ELSE IF Len(parts) = 1 THEN parts[1]
  ELSE parts[1] \o sep \o Join(Tail(parts), sep)

\* cupsFilePrintf(fp, "<keyword> %s %s ...\n", ...): the line without newline
FormatLine(keyword, fields) == Join(<<keyword>> \o fields, <<" ">>)

RECURSIVE EscapeHash(_)
EscapeHash(s) ==
  IF Len(s) = 0 THEN <<>>
  ELSE IF Head(s) = "#" THEN <<"\\", "#">> \o EscapeHash(Tail(s))
  ELSE <<Head(s)>> \o EscapeHash(Tail(s))

\* cupsFilePutConf(fp, directive, value): '#' is written as "\#"
cupsFilePutConf(directive, value) == directive \o <<" ">> \o EscapeHash(value)

\* the bytes of text lines as they lie in the file
RECURSIVE LinesBytes(_)
LinesBytes(lines) ==
  IF Len(lines) = 0 THEN <<>>
  ELSE Head(lines) \o <<LF>> \o LinesBytes(Tail(lines))

\* cupsFileGets on raw bytes: [line, rest], the line ending at the first
\* newline (or at the end of the data)
NextLine(bytes) ==
  IF \E i \in 1..Len(bytes) : bytes[i] = LF
    THEN LET i == CHOOSE i \in 1..Len(bytes) :
                    bytes[i] = LF /\ \A j \in 1..(i - 1) : bytes[j] # LF
         IN  [line |-> SubSeq(bytes, 1, i - 1), rest |-> Drop(bytes, i)]
    ELSE [line |-> bytes, rest |-> <<>>]

\* the C string held by a buffer: the bytes before the first NUL
CString(buf) ==
  IF \E i \in 1..Len(buf) : buf[i] = NUL
    THEN SubSeq(buf, 1, (CHOOSE i \in 1..Len(buf) :
                           buf[i] = NUL /\ \A j \in 1..(i - 1) : buf[j] # NUL) - 1)
    ELSE buf

RECURSIVE StripTrailingSpace(_)
StripTrailingSpace(s) ==
  IF Len(s) > 0 /\ ppd_isspace(s[Len(s)])
    THEN StripTrailingSpace(SubSeq(s, 1, Len(s) - 1))
    ELSE s

RECURSIVE StripLeadingSpace(_)
StripLeadingSpace(s) ==
  IF Len(s) > 0 /\ ppd_isspace(s[1]) THEN StripLeadingSpace(Tail(s)) ELSE s

\* the comment handling of cupsFileGetConf: the first '#' starts a comment
\* unless a backslash precedes it, which is then removed
StripComment(s) ==
  LET h == IndexOf("#", s)
  IN  IF h = 0 THEN s
      ELSE IF h > 1 /\ s[h - 1] = "\\"
        THEN SubSeq(s, 1, h - 2) \o SubSeq(s, h, Len(s))
        ELSE StripTrailingSpace(SubSeq(s, 1, h - 1))

\* cupsFileGetConf applied to one line read by cupsFileGets:
\* [blank, line, value]; blank lines are skipped by the caller's loop, value
\* is NullStr when nothing follows the keyword
cupsFileGetConf(raw) ==
  LET buf == StripLeadingSpace(StripComment(CString(raw)))
      sp  == IF \E i \in 1..Len(buf) : ppd_isspace(buf[i])
               THEN CHOOSE i \in 1..Len(buf) :
                      ppd_isspace(buf[i]) /\ \A j \in 1..(i - 1) : ~ppd_isspace(buf[j])
               ELSE 0
      val == IF sp = 0 THEN <<>>
             ELSE StripTrailingSpace(StripLeadingSpace(Drop(buf, sp)))
  IN  [blank |-> Len(buf) = 0,
       line  |-> IF sp = 0 THEN buf ELSE SubSeq(buf, 1, sp - 1),
       value |-> IF Len(val) = 0 THEN NullStr ELSE val]

\* sscanf "%<width>s": skip white space, then at most width non-space
\* characters; [ok, str, rest]
ScanS(s, width) ==
  LET t == StripLeadingSpace(s)
      e == IF \E i \in 1..Len(t) : ppd_isspace(t[i])
             THEN (CHOOSE i \in 1..Len(t) :
                     ppd_isspace(t[i]) /\ \A j \in 1..(i - 1) : ~ppd_isspace(t[j])) - 1
             ELSE Len(t)
      n == IF e > width THEN width ELSE e
  IN  [ok |-> n > 0, str |-> Take(t, n), rest |-> Drop(t, n)]

RECURSIVE DigitRun(_, _)
DigitRun(s, i) == IF isdigit(At(s, i)) THEN DigitRun(s, i + 1) ELSE i

\* sscanf "%d": skip white space, an optional sign, at least one digit;
\* [ok, val, rest]
ScanD(s) ==
  LET t == StripLeadingSpace(s)
      b == IF At(t, 1) \in {"-", "+"} THEN 2 ELSE 1
      e == DigitRun(t, b)
  IN  [ok |-> e > b, val |-> atoi(Take(t, e - 1)), rest |-> Drop(t, e - 1)]

\* sscanf(value, "%d%d...") for n integers: [count, vals]
RECURSIVE ScanInts(_, _, _)
ScanInts(s, n, vals) ==
  IF n = 0 THEN vals
  ELSE LET r == ScanD(s)
       IN  IF r.ok THEN ScanInts(r.rest, n - 1, Append(vals, r.val)) ELSE vals

\* sscanf(value, "%127s%40s"): [count, pwg, ppd, rest]
ScanKeywords(value) ==
  LET a == ScanS(value, 127)
      b == ScanS(a.rest, PPD_MAX_NAME - 1)
  IN  [count |-> IF ~a.ok THEN 0 ELSE IF ~b.ok THEN 1 ELSE 2,
       pwg |-> a.str, ppd |-> b.str, rest |-> b.rest]

(***************************************************************************)
(* IPP attribute sets and their encoding (ippLength, ippWriteIO, ippReadIO *)
(* of libcups; RFC 8010): version, operation/status, request id, attribute *)
(* groups, end-of-attributes tag                                           *)
(***************************************************************************)
\* the attribute sets a caller passes: an empty message and a message with
\* one text attribute n = "b c" in the printer group
IppSets == {"empty", "one-text"}

IppEncode(ipp) ==
  LET head == <<"x02", "x00", "x00", "x00", "x00", "x00", "x00", "x01">>
  IN  IF ipp = "empty" THEN head \o <<"x03">>
      ELSE head \o <<"x04", "x41", "x00", "x01", "n",
                     "x00", "x03", "b", " ", "c", "x03">>

\* ippGetLength(attrs)
ippGetLength(ipp) == Len(IppEncode(ipp))

\* ippReadIO(fp, cupsFileRead, 1, NULL, *attrs) on the bytes at the cursor:
\* [ok, ipp, used]; the message is self-delimiting
ippReadIO(bytes) ==
  IF \E a \in IppSets : Take(bytes, ippGetLength(a)) = IppEncode(a)
    THEN LET a == CHOOSE a \in IppSets : Take(bytes, ippGetLength(a)) = IppEncode(a)
         IN  [ok |-> TRUE, ipp |-> a, used |-> ippGetLength(a)]
    ELSE [ok |-> FALSE, ipp |-> NullIpp, used |-> 0]

(***************************************************************************)
(* The cache aggregate (ppd_cache_t)                                       *)
(*                                                                         *)
(* Tables are sequences (num_bins = Len(bins), ...); allocs names the      *)
(* arrays and containers that are allocated; a string field is allocated   *)
(* when it is not NullStr.                                                 *)
(***************************************************************************)
ZeroSize ==
  [pwg |-> NullStr, ppd |-> NullStr, width |-> 0, length |-> 0,
   left |-> 0, bottom |-> 0, right |-> 0, top |-> 0]

\* calloc(1, sizeof(ppd_cache_t))
EmptyCache ==
  [ bins |-> <<>>, sizes |-> <<>>, sources |-> <<>>, types |-> <<>>,
    allocs |-> {},
    source_option |-> NullStr,
    custom_max_keyword |-> NullStr, custom_min_keyword |-> NullStr,
    custom_max_width |-> 0, custom_max_length |-> 0,
    custom_min_width |-> 0, custom_min_length |-> 0,
    custom_size |-> ZeroSize, custom_ppd_size |-> <<>>,
    sides_option |-> NullStr, sides_1sided |-> NullStr,
    sides_2sided_long |-> NullStr, sides_2sided_short |-> NullStr,
    product |-> NullStr,
    filters |-> <<>>, single_file |-> FALSE,
    presets |-> [cm \in 0..1 |-> [q \in 0..2 |-> NullStr]],
    optimize_presets |-> [o \in 0..4 |-> NullStr],
    finishings |-> <<>>, templates |-> <<>>,
    max_copies |-> 0,
    account_id |-> FALSE, accounting_user_id |-> FALSE,
    password |-> NullStr, mandatory |-> <<>> ]

\* the string fields of a cache
StringFields ==
  { "source_option", "custom_max_keyword", "custom_min_keyword",
    "sides_option", "sides_1sided", "sides_2sided_long", "sides_2sided_short",
    "product" }

\* every allocation a cache owns: the structure itself, its arrays and
\* containers, and its strings
Owned(c) ==
  IF c = NullCache THEN {}
  ELSE {"ppd_cache_t"} \cup c.allocs \cup {f \in StringFields : c[f] # NullStr}

\* what ppdCacheDestroy frees of a cache that owns it
DestroyFrees ==
  { "ppd_cache_t", "bins", "sizes", "source_option", "sources", "types",
    "custom_max_keyword", "custom_min_keyword", "product", "filters",
    "prefilters", "finishings", "charge_info_uri", "password", "mandatory",
    "support_files", "strings", "presets", "optimize_presets" }

\* ppdCacheDestroy(pc): the allocations of pc that are still live afterwards
ppdCacheDestroy(c) == Owned(c) \ DestroyFrees

(***************************************************************************)
(* set_error and the message catalog                                       *)
(***************************************************************************)
MsgBad == "Bad PPD cache file."

\* one message for every unusable file
MsgUnusable == "Bad PPD cache file."

MsgOutOfDate == "Out of date PPD cache file."

MsgNoMem == "Out of memory."

\* cupsLangGetString(cupsLangDefault(), message): the catalog's string for
\* the message, the message itself when the catalog has none
cupsLangGetString(catalog, message) ==
  IF message \in DOMAIN catalog THEN catalog[message] ELSE message

\* the message catalogs of the modelled locales: a translation
Catalogs ==
  { [m \in {MsgBad, MsgOutOfDate, MsgNoMem} |->
       IF m = MsgBad THEN "Fehlerhafte PPD-Cache-Datei."
       ELSE IF m = MsgOutOfDate THEN "Veraltete PPD-Cache-Datei."
       ELSE "Zu wenig Speicher."] }

\* a call of set_error(message, localize), and no call
Err(message, localize) == [called |-> TRUE, message |-> message, localize |-> localize]

NoErr == [called |-> FALSE, message |-> "", localize |-> FALSE]

\* set_error: the new value of ppd_cache_status_message (message is never
\* NULL at the call sites)
set_error(catalog, old, e) ==
  IF ~e.called THEN old
  ELSE IF e.localize THEN cupsLangGetString(catalog, e.message)
  ELSE e.message

(***************************************************************************)
(* ppdCacheCreateWithPPD                                                   *)
(***************************************************************************)
NullPPD == [null |-> TRUE]

DuplexKeywords ==
  <<"Duplex", "JCLDuplex", "EFDuplex", "EFDuplexing", "ARDuplex", "KD03Duplex">>

RECURSIVE FindFirstOption(_, _, _)
FindFirstOption(ppd, keywords, i) ==
  IF i > Len(keywords) THEN NullOption
  ELSE IF ppdFindOption(ppd, keywords[i]) # NullOption
    THEN ppdFindOption(ppd, keywords[i])
    ELSE FindFirstOption(ppd, keywords, i + 1)

\* the Duplex loop: st holds the three sides choice names found so far
RECURSIVE BuildSides(_, _, _)
BuildSides(choices, i, st) ==
  IF i > Len(choices) THEN st
  ELSE
    LET c == choices[i]
    IN  IF (ppd_strcasecmp(c, <<"N","o","n","e">>) \/ ppd_strcasecmp(c, <<"F","a","l","s","e">>)) /\
           st.sides_1sided = NullStr
          THEN BuildSides(choices, i + 1, [st EXCEPT !.sides_1sided = c])
        ELSE IF (ppd_strcasecmp(c, <<"D","u","p","l","e","x","N","o","T","u","m","b","l","e">>) \/
                 ppd_strcasecmp(c, <<"L","o","n","g","E","d","g","e">>) \/ ppd_strcasecmp(c, <<"T","o","p">>)) /\
                st.sides_2sided_long = NullStr
          THEN BuildSides(choices, i + 1, [st EXCEPT !.sides_2sided_long = c])
        ELSE IF (ppd_strcasecmp(c, <<"D","u","p","l","e","x","T","u","m","b","l","e">>) \/
                 ppd_strcasecmp(c, <<"S","h","o","r","t","E","d","g","e">>) \/ ppd_strcasecmp(c, <<"B","o","t","t","o","m">>)) /\
                st.sides_2sided_short = NullStr
          THEN BuildSides(choices, i + 1, [st EXCEPT !.sides_2sided_short = c])
        ELSE BuildSides(choices, i + 1, st)

RawFilter == <<"a","p","p","l","i","c","a","t","i","o","n","/","v","n","d",".","c","u","p","s","-","r","a","w"," ","a","p","p","l","i","c","a","t","i","o","n","/","o","c","t","e","t","-","s","t","r","e","a","m"," ","0"," ","-">>

PostScriptFilter == <<"a","p","p","l","i","c","a","t","i","o","n","/","v","n","d",".","c","u","p","s","-","p","o","s","t","s","c","r","i","p","t"," ","0"," ","-">>

CommandFilter == <<"a","p","p","l","i","c","a","t","i","o","n","/","v","n","d",".","c","u","p","s","-","c","o","m","m","a","n","d"," ","a","p","p","l","i","c","a","t","i","o","n","/","p","o","s","t","s","c","r","i","p","t"," ","1","0","0"," ","c","o","m","m","a","n","d","t","o","p","s">>

\* is filter a filter for the MIME type (strncasecmp over the type, then a
\* white-space character)?
FilterFor(filter, type) ==
  ppd_strncasecmp(filter, type, Len(type)) /\ ppd_isspace(At(filter, Len(type) + 1))

BuildFilters(ppd) ==
  LET base == <<RawFilter>> \o
              (IF Len(ppd.filters) > 0 THEN ppd.filters ELSE <<PostScriptFilter>>)
      cmd  == \E i \in 1..Len(base) : FilterFor(base[i], <<"a","p","p","l","i","c","a","t","i","o","n","/","v","n","d",".","c","u","p","s","-","c","o","m","m","a","n","d">>)
      ps   == \E i \in 1..Len(base) : FilterFor(base[i], <<"a","p","p","l","i","c","a","t","i","o","n","/","v","n","d",".","c","u","p","s","-","p","o","s","t","s","c","r","i","p","t">>)
      none == ppdFindAttr(ppd, "cupsCommands") # NullAttr /\
              ppd_strcasecmp(ppdFindAttr(ppd, "cupsCommands").value, <<"n","o","n","e">>)
  IN  IF ~cmd /\ ~none /\ ps THEN Append(base, CommandFilter) ELSE base

(***************************************************************************)
(* ppdCacheAssignPresets: the properties of a choice                       *)
(***************************************************************************)
\* strcasecmp(a, b) == 0
strcasecmp(a, b) == ppd_strcasecmp(a, b)

\* strncasecmp(a, b, n) == 0
strncasecmp(a, b, n) == ppd_strncasecmp(a, b, n)

\* the least of a set of positions, 0 for none
First(at) == IF at = {} THEN 0 ELSE CHOOSE i \in at : \A j \in at : i <= j

\* strcasestr(s, sub): the position of the first occurrence, 0 for NULL
strcasestr(s, sub) ==
  First({i \in 1..(Len(s) - Len(sub) + 1) :
           Lower(SubSeq(s, i, i + Len(sub) - 1)) = Lower(sub)})

\* strcasestr(s, sub) != NULL
Has(s, sub) == strcasestr(s, sub) > 0

\* (p = strcasestr(s, a)) && strcasestr(p, b)
HasThen(s, a, b) == Has(s, a) /\ Has(Drop(s, strcasestr(s, a) - 1), b)

\* (p = strcasestr(s, a)) && !strcasestr(p, b)
HasThenNot(s, a, b) == Has(s, a) /\ ~Has(Drop(s, strcasestr(s, a) - 1), b)

\* strstr(s, sub) != NULL
strstr(s, sub) ==
  \E i \in 1..(Len(s) - Len(sub) + 1) : SubSeq(s, i, i + Len(sub) - 1) = sub

\* the characters of option names in the order of their codes
AsciiChars ==
  <<"-",".","0","1","2","3","4","5","6","7","8","9","A","B","C","D","E","F","G","H","I","J","K","L","M","N","O","P","Q","R","S","T","U","V","W","X","Y","Z","_","a","b","c","d","e","f","g","h","i","j","k","l","m","n","o","p","q","r","s","t","u","v","w","x","y","z">>

\* strcmp(a, b) < 0
RECURSIVE StrLess(_, _)
StrLess(a, b) ==
  IF Len(b) = 0 THEN FALSE
  ELSE IF Len(a) = 0 THEN TRUE
  ELSE IF a[1] = b[1] THEN StrLess(Tail(a), Tail(b))
  ELSE IndexOf(a[1], AsciiChars) < IndexOf(b[1], AsciiChars)

isalpha(c) == ppd_isupper(c) \/ ppd_islower(c)

\* c is one of the names, whatever the case
AnyOf(c, names) == \E n \in names : strcasecmp(c, n)

\* the options whose choices the function reads as color modes
ColorModeOption(o) ==
  \/ strcasecmp(o, <<"C","o","l","o","r","M","o","d","e","l">>) \/ Has(o, <<"C","o","l","o","r","M","o","d","e">>)
  \/ strcasecmp(o, <<"O","u","t","p","u","t","M","o","d","e">>) \/ strcasecmp(o, <<"P","r","i","n","t","o","u","t","M","o","d","e">>)
  \/ strcasecmp(o, <<"A","R","C","M","o","d","e">>) \/ strcasecmp(o, <<"C","o","l","o","r","R","e","s","T","y","p","e">>)
  \/ Has(o, <<"M","o","n","o","C","o","l","o","r">>)

\* sets_mono without the rule for the names with "Gray"
SetsMonoBlackOnly(o, c) ==
  IF ColorModeOption(o) /\ (Has(c, <<"M","o","n","o">>) \/ strcasecmp(c, <<"B","l","a","c","k">>)) THEN 2 ELSE 0

\* properties->sets_mono of choice c of option o on a color device
SetsMono(o, c) ==
  IF strcasecmp(o, <<"C","N","I","J","S","G","r","a","y","S","c","a","l","e">>)
    THEN (IF strcasecmp(c, <<"1">>) THEN 2 ELSE 0)
  ELSE IF strcasecmp(o, <<"H","P","C","o","l","o","r","A","s","G","r","a","y">>) \/ strcasecmp(o, <<"H","P","P","J","L","C","o","l","o","r","A","s","G","r","a","y">>)
    THEN (IF AnyOf(c, {<<"T","r","u","e">>, <<"y","e","s">>}) THEN 2 ELSE 0)
  ELSE IF ColorModeOption(o)
    THEN IF \/ Has(c, <<"M","o","n","o">>) \/ strcasecmp(c, <<"B","l","a","c","k">>)
            \/ HasThen(c, <<"B","l","a","c","k">>, <<"W","h","i","t","e">>)
            \/ (strncasecmp(c, <<"B","W">>, 2) /\ ~isalpha(At(c, 3)))
           THEN 2
         ELSE IF Has(c, <<"G","r","a","y">>) \/ Has(c, <<"G","r","e","y">>) \/ strcasecmp(c, <<"B","l","a","c","k","O","n","l","y">>)
           THEN 3
         ELSE 0
  ELSE 0

\* properties->sets_color of choice c of option o on a color device
SetsColor(o, c) ==
  IF strcasecmp(o, <<"C","N","I","J","S","G","r","a","y","S","c","a","l","e">>)
    THEN (IF strcasecmp(c, <<"1">>) THEN 0 ELSE 1)
  ELSE IF strcasecmp(o, <<"H","P","C","o","l","o","r","A","s","G","r","a","y">>) \/ strcasecmp(o, <<"H","P","P","J","L","C","o","l","o","r","A","s","G","r","a","y">>)
    THEN (IF AnyOf(c, {<<"T","r","u","e">>, <<"y","e","s">>}) THEN 0 ELSE 1)
  ELSE IF ColorModeOption(o)
    THEN IF \/ HasThenNot(c, <<"C","M","Y">>, <<"G","r","a","y">>) \/ strcasecmp(c, <<"C","o","l","o","r","O","n","l","y">>)
            \/ HasThen(c, <<"A","d","o","b","e">>, <<"R","G","B">>)
           THEN 2
         ELSE IF Has(c, <<"s","R","G","B">>) THEN 4
         ELSE IF Has(c, <<"R","G","B">>) \/ Has(c, <<"C","o","l","o","r">>) THEN 3
         ELSE 0
  ELSE 0

\* the branch of the print-quality rules an option name selects
QualityRule(o) ==
  IF strcasecmp(o, <<"A","R","C","P","P","r","i","o","r","i","t","y">>) THEN "ARCPPriority"
  ELSE IF strcasecmp(o, <<"B","R","J","p","e","g">>) THEN "BRJpeg"
  ELSE IF strcasecmp(o, <<"F","X","O","u","t","p","u","t","M","o","d","e">>) THEN "FXOutputMode"
  ELSE IF strcasecmp(o, <<"R","I","P","r","i","n","t","M","o","d","e">>) THEN "RIPrintMode"
  ELSE IF strcasecmp(o, <<"E","c","o","n","o","M","o","d","e">>) \/ strcasecmp(o, <<"E","c","o","n","o","F","a","s","t">>) THEN "EconoMode"
  ELSE IF Has(o, <<"C","o","l","o","r","P","r","e","c","i","s","i","o","n">>) THEN "ColorPrecision"
  ELSE IF \/ HasThen(o, <<"s","l","o","w">>, <<"d","r","y">>) \/ HasThen(o, <<"c","o","l","o","r">>, <<"e","n","h","a","n","c","e">>)
          \/ HasThenNot(o, <<"r","e","s","o","l","u","t","i","o","n">>, <<"e","n","h","a","n","c","e">>)
          \/ strcasecmp(o, <<"R","E","T">>) \/ strcasecmp(o, <<"S","m","o","o","t","h","i","n","g">>)
          \/ HasThen(o, <<"u","n","i">>, <<"d","i","r","e","c","t","i","o","n">>)
    THEN "enhances"
  ELSE IF \/ Has(o, <<"d","r","a","f","t">>) \/ Has(o, <<"e","c","o","n","o","m","y">>)
          \/ HasThen(o, <<"e","c","o">>, <<"m","o","d","e">>) \/ HasThen(o, <<"t","o","n","e","r">>, <<"s","a","v">>)
          \/ HasThen(o, <<"b","i">>, <<"d","i","r","e","c","t","i","o","n">>)
          \/ strcasecmp(o, <<"E","c","o","B","l","a","c","k">>) \/ strcasecmp(o, <<"b","i","d","i">>)
          \/ strcasecmp(o, <<"b","i","-","d","i">>)
    THEN "reduces"
  ELSE IF \/ strcasecmp(o, <<"C","o","l","o","r","M","o","d","e","l">>) \/ Has(o, <<"C","o","l","o","r","M","o","d","e">>)
          \/ strcasecmp(o, <<"O","u","t","p","u","t","M","o","d","e">>) \/ strcasecmp(o, <<"P","r","i","n","t","o","u","t","M","o","d","e">>)
          \/ strcasecmp(o, <<"P","r","i","n","t","Q","u","a","l","i","t","y">>) \/ strcasecmp(o, <<"P","r","i","n","t","M","o","d","e">>)
          \/ Has(o, <<"H","a","l","f","T","o","n","e">>) \/ strcasecmp(o, <<"C","o","l","o","r","R","e","s","T","y","p","e">>)
          \/ Has(o, <<"M","o","n","o","C","o","l","o","r">>) \/ Has(o, <<"Q","u","a","l","i","t","y">>)
          \/ Has(o, <<"R","e","s","o","l","u","t","i","o","n">>) \/ Has(o, <<"P","r","e","c","i","s","i","o","n">>)
          \/ Has(o, <<"P","r","i","n","t","i","n","g","D","i","r","e","c","t","i","o","n">>)
    THEN "enumerated"
  ELSE "none"

BoolTrue(c) == AnyOf(c, {<<"T","r","u","e">>, <<"O","n">>, <<"Y","e","s">>, <<"1">>, <<"M","e","d","i","u","m">>})

BoolFalse(c) == AnyOf(c, {<<"F","a","l","s","e">>, <<"O","f","f">>, <<"N","o">>, <<"0">>})

\* "Use high or low quality but not the extremes"
NotExtreme(c, score) ==
  IF (Has(c, <<"u","l","t","r","a">>) \/ Has(c, <<"v","e","r","y">>) \/ Has(c, <<"s","u","p","e","r">>)) /\ score > 1
    THEN score - 1 ELSE score

\* the high-quality score of a choice name under the generic rules
EnumeratedHigh(c) ==
  IF strcasecmp(c, <<"Q","u","a","l","i","t","y">>) \/ strcasecmp(c, <<"5">>) THEN 1
  ELSE IF \/ Has(c, <<"P","h","o","t","o">>) \/ Has(c, <<"E","n","h","a","n","c","e">>) \/ Has(c, <<"s","l","o","w">>)
          \/ strncasecmp(c, <<"P","r","o","R","e","s">>, 6) \/ strncasecmp(c, <<"I","m","a","g","e","R","E","t">>, 8)
          \/ HasThen(c, <<"l","o","w">>, <<"s","p","e","e","d">>)
    THEN 2
  ELSE IF \/ Has(c, <<"f","i","n","e">>) \/ Has(c, <<"d","e","e","p">>)
          \/ HasThenNot(c, <<"h","i","g","h">>, <<"s","p","e","e","d">>) \/ Has(c, <<"H","Q">>)
          \/ AnyOf(c, {<<"P","r","o","R","e","s","6","0","0">>, <<"I","m","a","g","e","R","E","t","1","2","0","0">>, <<"E","n","h","a","n","c","e","d">>})
    THEN 3
  ELSE IF \/ Has(c, <<"b","e","s","t">>)
          \/ AnyOf(c, {<<"h","i","g","h">>, <<"f","i","n","e">>, <<"H","Q">>, <<"C","M","Y","G","r","a","y">>, <<"P","r","o","R","e","s","1","2","0","0">>,
                       <<"I","m","a","g","e","R","E","t","2","4","0","0">>})
          \/ Has(c, <<"u","n","i","d","i","r">>)
    THEN 4
  ELSE IF AnyOf(c, {<<"b","e","s","t">>, <<"P","r","o","R","e","s","2","4","0","0">>, <<"m","o","n","o","l","o","w","d","e","t","a","i","l">>}) THEN 5
  ELSE 0

\* the draft score of a choice name under the generic rules
EnumeratedDraft(c) ==
  IF strcasecmp(c, <<"m","o","n","o","l","o","w","d","e","t","a","i","l">>) \/ strcasecmp(c, <<"3">>) THEN 1
  ELSE IF \/ HasThen(c, <<"f","a","s","t">>, <<"d","r","a","f","t">>) \/ HasThen(c, <<"h","i","g","h">>, <<"s","p","e","e","d">>)
          \/ (Has(c, <<"s","p","e","e","d">>) /\ ~Has(c, <<"l","o","w">>))
    THEN 2
  ELSE IF \/ Has(c, <<"q","u","i","c","k">>)
          \/ (Has(c, <<"f","a","s","t">>) /\
              ~(strncasecmp(c, <<"F","a","s","t","R","e","s">>, 7) /\ isdigit(At(c, 8))))
    THEN 3
  ELSE IF \/ strcasecmp(c, <<"q","u","i","c","k">>) \/ strcasecmp(c, <<"f","a","s","t">>)
          \/ Has(c, <<"d","r","a","f","t">>) \/ (Has(c, <<"l","o","w">>) /\ ~Has(c, <<"s","l","o","w">>))
          \/ Has(c, <<"c","o","a","r","s","e">>)
    THEN 4
  ELSE IF AnyOf(c, {<<"d","r","a","f","t">>, <<"l","o","w">>, <<"c","o","a","r","s","e">>}) \/ Has(c, <<"b","i","d","i","r">>) THEN 5
  ELSE 0

\* the normal-quality score of a choice name under the generic rules
EnumeratedNormal(c) ==
  IF \/ Has(c, <<"a","u","t","o","m","a","t","i","c">>) \/ AnyOf(c, {<<"n","o","n","e">>, <<"4">>, <<"F","a","s","t","R","e","s","1","2","0","0">>}) THEN 1
  ELSE IF \/ Has(c, <<"n","o","r","m","a","l">>) \/ Has(c, <<"s","t","a","n","d","a","r","d">>) \/ Has(c, <<"d","e","f","a","u","l","t">>)
          \/ strcasecmp(c, <<"F","a","s","t","R","e","s","6","0","0">>)
    THEN 2
  ELSE IF AnyOf(c, {<<"n","o","r","m","a","l">>, <<"s","t","a","n","d","a","r","d">>, <<"d","e","f","a","u","l","t">>}) THEN 4
  ELSE 0

\* properties->sets_high by the names, before the weight
NameHigh(rule, c) ==
      IF rule = "ARCPPriority" THEN (IF strcasecmp(c, <<"Q","u","a","l","i","t","y">>) THEN 10 ELSE 0)
      ELSE IF rule = "BRJpeg" THEN (IF strcasecmp(c, <<"Q","u","a","l","i","t","y","P","r","i","o","r">>) THEN 10 ELSE 0)
      ELSE IF rule = "FXOutputMode" THEN (IF strcasecmp(c, <<"Q","u","a","l","i","t","y","2">>) THEN 10 ELSE 0)
      ELSE IF rule = "RIPrintMode"
        THEN (IF strcasecmp(c, <<"1","r","h","i","t">>) THEN 7
              ELSE IF strcasecmp(c, <<"6","r","h","i","t">>) THEN 10 ELSE 0)
      ELSE IF rule = "EconoMode" THEN (IF AnyOf(c, {<<"O","f","f">>, <<"F","a","l","s","e">>}) THEN 1 ELSE 0)
      ELSE IF rule = "ColorPrecision" THEN (IF strcasecmp(c, <<"b","e","s","t">>) THEN 10 ELSE 0)
      ELSE IF rule = "enhances" THEN (IF BoolTrue(c) THEN 3 ELSE 0)
      ELSE IF rule = "reduces"
        THEN (IF ~BoolTrue(c) /\ BoolFalse(c) THEN 3 ELSE 0)
      ELSE IF rule = "enumerated" THEN NotExtreme(c, EnumeratedHigh(c))
      ELSE 0

\* properties->sets_draft by the names, before the weight
NameDraft(rule, c) ==
      IF rule = "ARCPPriority" THEN (IF strcasecmp(c, <<"S","p","e","e","d">>) THEN 10 ELSE 0)
      ELSE IF rule = "BRJpeg" THEN (IF strcasecmp(c, <<"S","p","e","e","d","P","r","i","o","r">>) THEN 10 ELSE 0)
      ELSE IF rule = "FXOutputMode" THEN (IF strcasecmp(c, <<"S","p","e","e","d">>) THEN 10 ELSE 0)
      ELSE IF rule = "RIPrintMode"
        THEN (IF AnyOf(c, {<<"3","r","h","i","t">>, <<"4","r","h","i","t">>, <<"5","r","h","i","t">>}) THEN 10 ELSE 0)
      ELSE IF rule = "EconoMode"
        THEN (IF AnyOf(c, {<<"O","n">>, <<"T","r","u","e">>, <<"L","o","w">>}) THEN 10
              ELSE IF strcasecmp(c, <<"H","i","g","h">>) THEN 11 ELSE 0)
      ELSE IF rule = "enhances"
        THEN (IF ~BoolTrue(c) /\ BoolFalse(c) THEN 3 ELSE 0)
      ELSE IF rule = "reduces" THEN (IF BoolTrue(c) THEN 3 ELSE 0)
      ELSE IF rule = "enumerated" THEN NotExtreme(c, EnumeratedDraft(c))
      ELSE 0

\* properties->sets_normal by the names, before the weight
NameNormal(rule, c) ==
      IF rule = "FXOutputMode" THEN (IF strcasecmp(c, <<"S","t","a","n","d","a","r","d">>) THEN 10 ELSE 0)
      ELSE IF rule = "RIPrintMode" THEN (IF strcasecmp(c, <<"0","r","h","i","t">>) THEN 10 ELSE 0)
      ELSE IF rule = "enumerated" THEN EnumeratedNormal(c)
      ELSE 0

\* sscanf "%d%c%d" and "%dx%d" after the first number x: a second number
\* y, else the first for both
ScanPair(x, y) == IF y.ok THEN <<x.val, y.val>> ELSE <<x.val, x.val>>

\* sscanf(value, "%dx%d", &base_res_x, &base_res_y) with x the first number
ScanDefaultResolution(x) ==
  IF ~x.ok THEN <<0, 0>>
  ELSE IF At(x.rest, 1) = "x" THEN ScanPair(x, ScanD(Drop(x.rest, 1)))
  ELSE <<x.val, x.val>>

\* the base resolution of the description: what ppdRasterInterpretPPD finds
\* for the default choices (100x100 when nothing sets one), else the
\* attribute DefaultResolution; <<0, 0>> for none
BaseResolution(ppd) ==
  IF ppd.hw_resolution # <<100, 100>> THEN ppd.hw_resolution
  ELSE IF ppdFindAttr(ppd, "DefaultResolution") # NullAttr
    THEN ScanDefaultResolution(ScanD(ppdFindAttr(ppd, "DefaultResolution").value))
  ELSE <<0, 0>>

\* while (p > c && isspace(*p)) p --;
RECURSIVE BackSpace(_, _)
BackSpace(c, p) ==
  IF p > 1 /\ ppd_isspace(c[p]) THEN BackSpace(c, p - 1) ELSE p

\* while (p > c && isdigit(*p)) p --;
RECURSIVE BackDigits(_, _)
BackDigits(c, p) ==
  IF p > 1 /\ isdigit(c[p]) THEN BackDigits(c, p - 1) ELSE p

\* while (!isdigit(*p)) p ++;
RECURSIVE ToDigit(_, _)
ToDigit(c, p) == IF isdigit(At(c, p)) THEN p ELSE ToDigit(c, p + 1)

\* if (p > c && (*p == 'x' || *p == 'X')) p --;
BackX(c, p) == IF p > 1 /\ c[p] \in {"x", "X"} THEN p - 1 ELSE p

\* sscanf(p, "%d%c%d", &res_x, &x, &res_y) with x the first number
ScanResolution(x) == ScanPair(x, ScanD(Drop(x.rest, 1)))

\* the number or pair of numbers that ends at position p of the name
ResolutionBefore(c, p) ==
  IF p > 1 /\ isdigit(c[p])
    THEN ScanResolution(
           ScanD(Drop(c, ToDigit(c, BackDigits(c, BackX(c, BackDigits(c, p)))) - 1)))
    ELSE <<0, 0>>

\* the resolution before "dpi" at position dpi of the name
DpiResolution(c, dpi) ==
  IF dpi > 1 THEN ResolutionBefore(c, BackSpace(c, dpi - 1)) ELSE <<0, 0>>

\* the resolution a choice name states before "dpi" (the choices of the
\* descriptions carry no code): <<res_x, res_y>>, 0 for none
ChoiceResolution(c) == DpiResolution(c, strcasestr(c, <<"d","p","i">>))

\* what the resolution of a choice adds to sets_normal, sets_high and
\* sets_draft (res_factor = 1)
ResolutionScore(base, res) ==
  LET none == [normal |-> 0, high |-> 0, draft |-> 0]
      m    == (res[1] * res[2]) \div (base[1] * base[2])
      d    == (base[1] * base[2]) \div (res[1] * res[2])
  IN  IF base[1] = 0 \/ base[2] = 0 \/ res[1] = 0 \/ res[2] = 0 THEN none
      ELSE IF m = 1 THEN [none EXCEPT !.normal = 4]
      ELSE IF m = 2 THEN [none EXCEPT !.high = 3]
      ELSE IF m > 2 /\ m <= 8 THEN [none EXCEPT !.high = 4]
      ELSE IF m > 8 /\ m <= 32 THEN [none EXCEPT !.high = 2]
      ELSE IF m > 32 THEN [none EXCEPT !.high = 1]
      ELSE IF d = 1 THEN [none EXCEPT !.normal = 1]
      ELSE IF d = 2 THEN [none EXCEPT !.draft = 3]
      ELSE IF d > 2 /\ d < 8 THEN [none EXCEPT !.draft = 4]
      ELSE IF d >= 8 /\ d < 32 THEN [none EXCEPT !.draft = 2]
      ELSE IF d >= 32 THEN [none EXCEPT !.draft = 1]
      ELSE none

\* the weight of the scores by name against the scores by resolution
name_factor == 10

\* the weight of the color score against the quality score
color_factor == 1000

\* the color and quality properties of choice c of option o, rule being the
\* quality rules of the option and r the score of the choice's resolution
ChoiceProperties(color_device, o, rule, defchoice, c, r) ==
  [ is_default  |-> c = defchoice,
    sets_mono   |-> IF color_device THEN SetsMono(o, c) ELSE 0,
    sets_color  |-> IF color_device THEN SetsColor(o, c) ELSE 0,
    sets_high   |-> NameHigh(rule, c) * name_factor + r.high,
    sets_draft  |-> NameDraft(rule, c) * name_factor + r.draft,
    sets_normal |-> NameNormal(rule, c) * name_factor + r.normal ]

\* whether pass may consider a choice for cell [cm][q] of the grid
Eligible(p, cm, q, pass) ==
  /\ IF cm = 0 THEN p.sets_color = 0 ELSE p.sets_mono = 0
  /\ q = 0 => (p.sets_high = 0 \/ pass > 0)
  /\ q = 1 => (p.sets_draft = 0 \/ pass > 1) /\ (p.sets_high = 0 \/ pass > 0)
  /\ q = 2 => (p.sets_draft = 0 \/ pass > 0)

\* the score of a choice for cell [cm][q]
Score(p, cm, q) ==
  color_factor * (IF cm = 0 THEN p.sets_mono ELSE p.sets_color)
  + (IF q = 0 THEN p.sets_draft ELSE IF q = 1 THEN p.sets_normal ELSE p.sets_high)

\* the loop over the choices in one pass, for one cell: [best, ch] with
\* ch = 0 for "none yet"
RECURSIVE PassChoices(_, _, _, _, _, _)
PassChoices(props, cm, q, pass, k, st) ==
  IF k > Len(props) THEN st
  ELSE PassChoices(props, cm, q, pass, k + 1,
         IF /\ st.best >= 0 /\ Eligible(props[k], cm, q, pass)
            /\ Score(props[k], cm, q) > st.best
           THEN [best |-> Score(props[k], cm, q), ch |-> k]
           ELSE st)

\* the three passes for one cell; a cell that has a choice is blocked for
\* the passes that follow
RECURSIVE BestChoice(_, _, _, _, _)
BestChoice(props, cm, q, pass, st) ==
  IF pass > 2 THEN st.ch
  ELSE LET after == PassChoices(props, cm, q, pass, 1, st)
       IN  BestChoice(props, cm, q, pass + 1,
                      IF after.ch > 0 THEN [after EXCEPT !.best = -1] ELSE after)

\* no default choice at all
DefaultChoiceNone(option) == 0

\* the index of the default choice, 0 when the declared default names none
DefaultChoice(option) ==
  LET at == {k \in 1..Len(option.choices) : option.choices[k] = option.defchoice}
  IN  IF at = {} THEN 0 ELSE CHOOSE k \in at : \A j \in at : j <= k

\* cupsAddOption(name, value, ...) on an option list kept in the order of
\* the names: replaces the value of the option of that name
cupsAddOption(name, value, options) ==
  IF \E i \in 1..Len(options) : ppd_strcasecmp(options[i].name, name)
    THEN [i \in 1..Len(options) |->
            IF ppd_strcasecmp(options[i].name, name)
              THEN [options[i] EXCEPT !.value = value] ELSE options[i]]
    ELSE LET before == {i \in 1..Len(options) :
                          StrLess(Lower(options[i].name), Lower(name))}
             n      == Cardinality(before)
         IN  SubSeq(options, 1, n) \o <<[name |-> name, value |-> value]>>
             \o SubSeq(options, n + 1, Len(options))

\* cupsGetOption(name, ...) != NULL
cupsGetOption(name, options) ==
  \E i \in 1..Len(options) : ppd_strcasecmp(options[i].name, name)

\* cupsGetOption(name, num_options, options): the value, NullStr for NULL
OptionValue(name, options) ==
  IF cupsGetOption(name, options)
    THEN options[CHOOSE i \in 1..Len(options) :
                   /\ ppd_strcasecmp(options[i].name, name)
                   /\ \A j \in 1..(i - 1) : ~ppd_strcasecmp(options[j].name, name)].value
    ELSE NullStr

\* properties->for_photo, for_graphics, for_text and for_tg of a choice; of
\* the generic names the last one found decides
ForPhoto(o, c) ==
  IF strcasecmp(o, <<"A","R","C","O","T","y","p","e">>) THEN (IF strcasecmp(c, <<"C","O","T","P","h","o","t","o">>) THEN 3 ELSE 0)
  ELSE IF strcasecmp(o, <<"H","P","R","G","B","E","m","u","l","a","t","i","o","n">>)
    THEN (IF strcasecmp(c, <<"P","h","o","t","o","S","R","G","B">>) THEN 3 ELSE 0)
  ELSE IF Has(c, <<"n","a","t","u","r","a","l">>) THEN 2
  ELSE IF Has(c, <<"p","h","o","t","o">>) THEN 6
  ELSE 0

ForGraphics(o, c) ==
  IF strcasecmp(o, <<"A","R","C","O","T","y","p","e">>)
    THEN (IF strcasecmp(c, <<"C","O","T","D","r","a","w","i","n","g">>) THEN 2
          ELSE IF strcasecmp(c, <<"C","O","T","G","r","a","p","h","i","c","s">>) THEN 3 ELSE 0)
  ELSE IF strcasecmp(o, <<"H","P","R","G","B","E","m","u","l","a","t","i","o","n">>)
    THEN (IF strcasecmp(c, <<"V","i","v","i","d","S","R","G","B">>) THEN 3 ELSE 0)
  ELSE IF Has(c, <<"v","i","v","i","d">>) THEN 2
  ELSE IF Has(c, <<"d","r","a","w","i","n","g">>) THEN 4
  ELSE IF Has(c, <<"l","i","n","e","a","r","t">>) THEN 2
  ELSE IF Has(c, <<"p","r","e","s","e","n","t","a","t","i","o","n">>) THEN 4
  ELSE IF Has(c, <<"g","r","a","p","h","i","c">>) THEN 6
  ELSE 0

ForText(o, c) ==
  IF strcasecmp(o, <<"A","R","C","O","T","y","p","e">>) THEN (IF strcasecmp(c, <<"C","O","T","D","r","a","w","i","n","g">>) THEN 3 ELSE 0)
  ELSE IF strcasecmp(o, <<"H","P","R","G","B","E","m","u","l","a","t","i","o","n">>)
    THEN (IF strcasecmp(c, <<"D","e","f","a","u","l","t","S","R","G","B">>) THEN 3 ELSE 0)
  ELSE IF Has(c, <<"v","i","v","i","d">>) THEN 2
  ELSE IF Has(c, <<"p","r","e","s","e","n","t","a","t","i","o","n">>) THEN 4
  ELSE IF Has(c, <<"t","e","x","t">>) /\ ~Has(c, <<"g","r","a","p","h","i","c">>) THEN 6
  ELSE 0

ForTG(o, c) ==
  IF strcasecmp(o, <<"A","R","C","O","T","y","p","e">>)
    THEN (IF strcasecmp(c, <<"C","O","T","D","r","a","w","i","n","g">>) THEN 2
          ELSE IF strcasecmp(c, <<"C","O","T","G","r","a","p","h","i","c","s">>) THEN 3 ELSE 0)
  ELSE IF strcasecmp(o, <<"H","P","R","G","B","E","m","u","l","a","t","i","o","n">>)
    THEN (IF strcasecmp(c, <<"V","i","v","i","d","S","R","G","B">>) THEN 3 ELSE 0)
  ELSE IF Has(c, <<"v","i","v","i","d">>) THEN 2
  ELSE IF Has(c, <<"d","r","a","w","i","n","g">>) THEN 4
  ELSE IF Has(c, <<"l","i","n","e","a","r","t">>) THEN 2
  ELSE IF Has(c, <<"p","r","e","s","e","n","t","a","t","i","o","n">>) THEN 4
  ELSE IF Has(c, <<"t","e","x","t">>) /\ Has(c, <<"g","r","a","p","h","i","c">>) THEN 7
  ELSE 0

\* "We apply these optimizations only in high quality mode"
PreferHigh(p, score) ==
  IF score # 0 /\ p.sets_high # 0 /\ p.sets_draft = 0 THEN score + 10 ELSE score

\* the content properties of choice c, p being its quality properties
ContentProperties(o, c, p) ==
  <<0, PreferHigh(p, ForPhoto(o, c)), PreferHigh(p, ForGraphics(o, c)),
    PreferHigh(p, ForText(o, c)), PreferHigh(p, ForTG(o, c))>>

\* the first choice with the highest score for content class i, 0 for none
BestContent(content, i) ==
  LET at == {k \in 1..Len(content) :
               /\ content[k][i + 1] > 0
               /\ \A j \in 1..Len(content) : content[j][i + 1] <= content[k][i + 1]}
  IN  IF at = {} THEN 0 ELSE CHOOSE k \in at : \A j \in at : k <= j

\* the options the function never puts into a preset
SkippedOptions ==
  { <<"P","a","g","e","S","i","z","e">>, <<"P","a","g","e","R","e","g","i","o","n">>, <<"I","n","p","u","t","S","l","o","t">>, <<"M","e","d","i","a","S","o","u","r","c","e">>, <<"M","e","d","i","a","T","y","p","e">>,
    <<"O","u","t","p","u","t","B","i","n">>, <<"D","u","p","l","e","x">>, <<"J","C","L","D","u","p","l","e","x">>, <<"E","F","D","u","p","l","e","x">>, <<"E","F","D","u","p","l","e","x","i","n","g">>,
    <<"A","R","D","u","p","l","e","x">>, <<"K","D","0","3","D","u","p","l","e","x">>, <<"C","o","l","l","a","t","e">> }

\* a Foomatic option whose first choice "From<X>" hands it to the option X
CompositeMember(ppd, option) ==
  /\ ppd.nickname # NullStr
  /\ strstr(ppd.nickname, <<"F","o","o","m","a","t","i","c">>)
  /\ Len(option.choices) > 0
  /\ strncmp(option.choices[1], <<"F","r","o","m">>, 4)
  /\ \E i \in 1..Len(ppd.options) :
       ppd_strcasecmp(ppd.options[i].name, Drop(option.choices[1], 4))

\* the presets while the function fills them: option lists
NoPresets ==
  [grid |-> [cm \in 0..1 |-> [q \in 0..2 |-> <<>>]], optimize |-> [i \in 0..4 |-> <<>>]]

\* the member option follows the composite option wherever that is set
AddMember(presets, option) ==
  LET o    == option.name
      from == option.choices[1]
  IN  [grid |-> [cm \in 0..1 |-> [q \in 0..2 |->
                   IF cupsGetOption(Drop(from, 4), presets.grid[cm][q])
                     THEN cupsAddOption(o, from, presets.grid[cm][q])
                     ELSE presets.grid[cm][q]]],
       optimize |-> [i \in 0..4 |->
                   IF cupsGetOption(Drop(from, 4), presets.optimize[i])
                     THEN cupsAddOption(o, from, presets.optimize[i])
                     ELSE presets.optimize[i]]]

\* a cell of the grid after the option: its choice ch (the choice of the
\* passes, else the default choice), when there is one
FillCell(cell, o, choices, ch, def) ==
  IF ch > 0 THEN cupsAddOption(o, choices[ch], cell)
  ELSE IF def > 0 THEN cupsAddOption(o, choices[def], cell)
  ELSE cell

\* a content preset after the option: its best choice, when there is one
FillContent(preset, o, choices, ch) ==
  IF ch > 0 THEN cupsAddOption(o, choices[ch], preset) ELSE preset

\* this option sets the color mode or the print quality
SetsGrid(props) ==
  \E k \in 1..Len(props) :
     \/ props[k].sets_mono # 0 \/ props[k].sets_color # 0
     \/ props[k].sets_draft # 0 \/ props[k].sets_high # 0

\* this option does content optimization
SetsOptimization(content) ==
  \E k \in 1..Len(content) : \E i \in 2..5 : content[k][i] # 0

\* "Fill in the presets" for one option, props and content being the
\* properties of its choices
FillPresets(presets, option, props, content) ==
  [grid |-> [cm \in 0..1 |-> [q \in 0..2 |->
               IF SetsGrid(props)
                 THEN FillCell(presets.grid[cm][q], option.name, option.choices,
                               BestChoice(props, cm, q, 0, [best |-> 0, ch |-> 0]),
                               DefaultChoice(option))
                 ELSE presets.grid[cm][q]]],
   optimize |-> [i \in 0..4 |->
               IF SetsOptimization(content) /\ i > 0
                 THEN FillContent(presets.optimize[i], option.name, option.choices,
                                  BestContent(content, i))
                 ELSE presets.optimize[i]]]

\* the quality and color properties of every choice of an option
OptionProperties(ppd, option) ==
  [k \in 1..Len(option.choices) |->
     ChoiceProperties(ppd.color_device, option.name, QualityRule(option.name),
                      option.defchoice, option.choices[k],
                      ResolutionScore(BaseResolution(ppd),
                                      ChoiceResolution(option.choices[k])))]

\* the content properties of every choice of an option
OptionContent(option, props) ==
  [k \in 1..Len(option.choices) |->
     ContentProperties(option.name, option.choices[k], props[k])]

\* the option with the properties of its choices
AddProperties(presets, option, props) ==
  FillPresets(presets, option, props, OptionContent(option, props))

\* the body of the loop for one scored option
AddScored(ppd, presets, option) ==
  AddProperties(presets, option, OptionProperties(ppd, option))

\* the body of the loop over the options
AssignOption(ppd, presets, option) ==
  IF strncasecmp(option.group, <<"I","n","s","t","a","l","l","a","b","l","e">>, 11) THEN presets
  ELSE IF AnyOf(option.name, SkippedOptions) THEN presets
  ELSE IF CompositeMember(ppd, option) THEN AddMember(presets, option)
  ELSE AddScored(ppd, presets, option)

\* the loop over the options, group by group
RECURSIVE AssignLoop(_, _, _)
AssignLoop(ppd, j, presets) ==
  IF j > Len(ppd.options) THEN presets
  ELSE AssignLoop(ppd, j + 1, AssignOption(ppd, presets, ppd.options[j]))

\* "%s=%s" for every option of a list, separated by spaces
OptionsText(options) ==
  Join([i \in 1..Len(options) |-> options[i].name \o <<"=">> \o options[i].value],
       <<" ">>)

\* the options of a preset; NullStr for an empty preset
PresetText(options) == IF Len(options) = 0 THEN NullStr ELSE OptionsText(options)

\* the cache with the presets the function has found
WithPresets(c, presets) ==
  [c EXCEPT !.presets = [cm \in 0..1 |-> [q \in 0..2 |-> PresetText(presets.grid[cm][q])]],
            !.optimize_presets = [i \in 0..4 |-> PresetText(presets.optimize[i])],
            !.allocs = @ \cup (IF \E cm \in 0..1, q \in 0..2 : presets.grid[cm][q] # <<>>
                                 THEN {"presets"} ELSE {})
                         \cup (IF \E i \in 0..4 : presets.optimize[i] # <<>>
                                 THEN {"optimize_presets"} ELSE {})]

\* ppdCacheAssignPresets(ppd, pc)
ppdCacheAssignPresets(ppd, c) == WithPresets(c, AssignLoop(ppd, 1, NoPresets))

(***************************************************************************)
(* ppdCacheCreateWithPPD: the finishings table                             *)
(***************************************************************************)
\* cupsArrayAdd into the array ordered by ppd_pwg_compare_finishings
\* (b->value - a->value: descending values; equal values keep their order)
ppd_pwg_add_sorted(finishings, f) ==
  LET before == {i \in 1..Len(finishings) : finishings[i].value >= f.value}
      n      == Cardinality(before)
  IN  SubSeq(finishings, 1, n) \o <<f>> \o SubSeq(finishings, n + 1, Len(finishings))

\* the white-space separated words of a string
RECURSIVE Words(_)
Words(s) ==
  LET t == StripLeadingSpace(s)
      w == ScanS(t, Len(t))
  IN  IF Len(t) = 0 THEN <<>> ELSE <<w.str>> \o Words(w.rest)

\* ppdParseOptions(value, 0, &options, PPD_PARSE_OPTIONS): the pairs
\* "*Option Choice" of the value as an option list
RECURSIVE ppdParseOptions(_, _)
ppdParseOptions(words, options) ==
  IF Len(words) < 2 THEN options
  ELSE ppdParseOptions(Drop(words, 2),
         IF At(words[1], 1) = "*"
           THEN cupsAddOption(Drop(words[1], 1), words[2], options)
           ELSE options)

\* ppdParseOptions(value, 0, &options, PPD_PARSE_ALL): the pairs
\* "*Option Choice" and "property value" of the value as an option list
RECURSIVE ppdParseAll(_, _)
ppdParseAll(words, options) ==
  IF Len(words) < 2 THEN options
  ELSE ppdParseAll(Drop(words, 2),
         cupsAddOption(IF At(words[1], 1) = "*" THEN Drop(words[1], 1) ELSE words[1],
                       words[2], options))

\* ppdFindChoice(option, choice) != NULL
ppdFindChoice(option, choice) ==
  \E k \in 1..Len(option.choices) : ppd_strcasecmp(option.choices[k], choice)

(***************************************************************************)
(* ppdCacheCreateWithPPD: the presets of APPrinterPreset attributes        *)
(***************************************************************************)
PPD_PWG_PRINT_QUALITY_DRAFT == 0

PPD_PWG_PRINT_QUALITY_NORMAL == 1

PPD_PWG_PRINT_QUALITY_HIGH == 2

PPD_PWG_PRINT_COLOR_MODE_MONOCHROME == 0

PPD_PWG_PRINT_COLOR_MODE_COLOR == 1

\* pwg_print_quality of a preset with these properties
PresetQuality(opts) ==
  IF OptionValue(<<"c","o","m",".","a","p","p","l","e",".","p","r","i","n","t",".","p","r","e","s","e","t",".","q","u","a","l","i","t","y">>, opts) = <<"l","o","w">>
    THEN PPD_PWG_PRINT_QUALITY_DRAFT
  ELSE IF OptionValue(<<"c","o","m",".","a","p","p","l","e",".","p","r","i","n","t",".","p","r","e","s","e","t",".","q","u","a","l","i","t","y">>, opts) = <<"h","i","g","h">>
    THEN PPD_PWG_PRINT_QUALITY_HIGH
  ELSE PPD_PWG_PRINT_QUALITY_NORMAL

\* a preset that is taken whenever it names a quality
PresetHasQuality(opts) ==
  OptionValue(<<"c","o","m",".","a","p","p","l","e",".","p","r","i","n","t",".","p","r","e","s","e","t",".","q","u","a","l","i","t","y">>, opts) # NullStr

\* the preset is taken: it names a quality, and below high quality it is
\* not for photos and its coating is none or autodetect
PresetUsable(opts) ==
  /\ OptionValue(<<"c","o","m",".","a","p","p","l","e",".","p","r","i","n","t",".","p","r","e","s","e","t",".","q","u","a","l","i","t","y">>, opts) # NullStr
  /\ ~ /\ PresetQuality(opts) # PPD_PWG_PRINT_QUALITY_HIGH
        /\ OptionValue(<<"c","o","m",".","a","p","p","l","e",".","p","r","i","n","t",".","p","r","e","s","e","t",".","g","r","a","p","h","i","c","s","T","y","p","e">>, opts) = <<"P","h","o","t","o">>
  /\ ~ /\ PresetQuality(opts) # PPD_PWG_PRINT_QUALITY_HIGH
        /\ OptionValue(<<"c","o","m",".","a","p","p","l","e",".","p","r","i","n","t",".","p","r","e","s","e","t",".","m","e","d","i","a","-","f","r","o","n","t","-","c","o","a","t","i","n","g">>, opts)
              \notin {NullStr, <<"n","o","n","e">>, <<"a","u","t","o","d","e","t","e","c","t">>}

\* pwg_print_color_mode of a preset with these properties
PresetColorMode(opts) ==
  IF OptionValue(<<"c","o","m",".","a","p","p","l","e",".","p","r","i","n","t",".","p","r","e","s","e","t",".","o","u","t","p","u","t","-","m","o","d","e">>, opts) # NullStr
    THEN (IF OptionValue(<<"c","o","m",".","a","p","p","l","e",".","p","r","i","n","t",".","p","r","e","s","e","t",".","o","u","t","p","u","t","-","m","o","d","e">>, opts) = <<"m","o","n","o","c","h","r","o","m","e">>
            THEN PPD_PWG_PRINT_COLOR_MODE_MONOCHROME
            ELSE PPD_PWG_PRINT_COLOR_MODE_COLOR)
  ELSE IF OptionValue(<<"C","o","l","o","r","M","o","d","e","l">>, opts) # NullStr
    THEN (IF ppd_strcasecmp(OptionValue(<<"C","o","l","o","r","M","o","d","e","l">>, opts), <<"G","r","a","y">>)
            THEN PPD_PWG_PRINT_COLOR_MODE_MONOCHROME
            ELSE PPD_PWG_PRINT_COLOR_MODE_COLOR)
  ELSE PPD_PWG_PRINT_COLOR_MODE_COLOR

\* the loop over the APPrinterPreset attributes, from attribute i on; st is
\* [grid, added]: the presets and preset_added
RECURSIVE ExplicitPresets(_, _, _)
ExplicitPresets(ppd, i, st) ==
  IF i > Len(ppd.attrs) THEN st
  ELSE ExplicitPresets(ppd, i + 1,
         IF ppd.attrs[i].name = "APPrinterPreset" /\
            PresetUsable(ppdParseAll(Words(ppd.attrs[i].value), <<>>))
           THEN [added |-> TRUE,
                 grid |->
                   [st.grid EXCEPT
                      ![PresetColorMode(ppdParseAll(Words(ppd.attrs[i].value), <<>>))]
                       [PresetQuality(ppdParseAll(Words(ppd.attrs[i].value), <<>>))] =
                         IF @ = <<>>
                           THEN ppdParseOptions(Words(ppd.attrs[i].value), <<>>)
                           ELSE @]]
           ELSE st)

\* the common color options and their choices for grayscale, "in order of
\* popularity"
GrayChoices ==
  << [option |-> "ColorModel",     name |-> <<"C","o","l","o","r","M","o","d","e","l">>,     choice |-> <<"G","r","a","y">>],
     [option |-> "HPColorMode",    name |-> <<"H","P","C","o","l","o","r","M","o","d","e">>,    choice |-> <<"g","r","a","y","s","c","a","l","e">>],
     [option |-> "BRMonoColor",    name |-> <<"B","R","M","o","n","o","C","o","l","o","r">>,    choice |-> <<"M","o","n","o">>],
     [option |-> "CNIJSGrayScale", name |-> <<"C","N","I","J","S","G","r","a","y","S","c","a","l","e">>, choice |-> <<"1">>],
     [option |-> "HPColorAsGray",  name |-> <<"H","P","C","o","l","o","r","A","s","G","r","a","y">>,  choice |-> <<"T","r","u","e">>] >>

\* the rows of GrayChoices that the description has
GrayRows(ppd) ==
  {k \in 1..Len(GrayChoices) :
     /\ ppdFindOption(ppd, GrayChoices[k].option) # NullOption
     /\ ppdFindChoice(ppdFindOption(ppd, GrayChoices[k].option), GrayChoices[k].choice)}

\* the grayscale presets made from the color presets with row k
GrayFrom(grid, k) ==
  [grid EXCEPT
     ![PPD_PWG_PRINT_COLOR_MODE_MONOCHROME] =
        [q \in 0..2 |->
           IF grid[PPD_PWG_PRINT_COLOR_MODE_COLOR][q] # <<>>
             THEN cupsAddOption(GrayChoices[k].name, GrayChoices[k].choice,
                                grid[PPD_PWG_PRINT_COLOR_MODE_COLOR][q])
           ELSE IF q = PPD_PWG_PRINT_QUALITY_NORMAL
             THEN cupsAddOption(GrayChoices[k].name, GrayChoices[k].choice,
                                grid[PPD_PWG_PRINT_COLOR_MODE_MONOCHROME][q])
           ELSE grid[PPD_PWG_PRINT_COLOR_MODE_MONOCHROME][q]]]

\* "Try adding some common color options to create grayscale presets"
GrayPresets(ppd, grid) ==
  IF (\E q \in 0..2 : grid[PPD_PWG_PRINT_COLOR_MODE_MONOCHROME][q] # <<>>) \/
     GrayRows(ppd) = {}
    THEN grid
    ELSE GrayFrom(grid, CHOOSE k \in GrayRows(ppd) : \A j \in GrayRows(ppd) : k <= j)

\* the value of the "finishings" attribute that says "no finishing"
IPP_FINISHINGS_NONE == 3

\* the common option choices and the finishings values they stand for, in
\* the order of the code
StandardFinishings ==
  << [option |-> "StapleLocation", name |-> <<"S","t","a","p","l","e","L","o","c","a","t","i","o","n">>, choice |-> <<"S","i","n","g","l","e","P","o","r","t","r","a","i","t">>, value |-> 20],
     [option |-> "StapleLocation", name |-> <<"S","t","a","p","l","e","L","o","c","a","t","i","o","n">>, choice |-> <<"U","p","p","e","r","L","e","f","t">>, value |-> 20],
     [option |-> "StapleLocation", name |-> <<"S","t","a","p","l","e","L","o","c","a","t","i","o","n">>, choice |-> <<"U","p","p","e","r","R","i","g","h","t">>, value |-> 22],
     [option |-> "StapleLocation", name |-> <<"S","t","a","p","l","e","L","o","c","a","t","i","o","n">>, choice |-> <<"S","i","n","g","l","e","L","a","n","d","s","c","a","p","e">>, value |-> 21],
     [option |-> "StapleLocation", name |-> <<"S","t","a","p","l","e","L","o","c","a","t","i","o","n">>, choice |-> <<"D","u","a","l","L","a","n","d","s","c","a","p","e">>, value |-> 28],
     [option |-> "RIPunch", name |-> <<"R","I","P","u","n","c","h">>, choice |-> <<"L","e","f","t","2">>, value |-> 74],
     [option |-> "RIPunch", name |-> <<"R","I","P","u","n","c","h">>, choice |-> <<"L","e","f","t","3">>, value |-> 78],
     [option |-> "RIPunch", name |-> <<"R","I","P","u","n","c","h">>, choice |-> <<"L","e","f","t","4">>, value |-> 82],
     [option |-> "RIPunch", name |-> <<"R","I","P","u","n","c","h">>, choice |-> <<"R","i","g","h","t","2">>, value |-> 76],
     [option |-> "RIPunch", name |-> <<"R","I","P","u","n","c","h">>, choice |-> <<"R","i","g","h","t","3">>, value |-> 80],
     [option |-> "RIPunch", name |-> <<"R","I","P","u","n","c","h">>, choice |-> <<"R","i","g","h","t","4">>, value |-> 84],
     [option |-> "RIPunch", name |-> <<"R","I","P","u","n","c","h">>, choice |-> <<"U","p","p","e","r","2">>, value |-> 75],
     [option |-> "RIPunch", name |-> <<"R","I","P","u","n","c","h">>, choice |-> <<"U","p","p","e","r","3">>, value |-> 79],
     [option |-> "RIPunch", name |-> <<"R","I","P","u","n","c","h">>, choice |-> <<"U","p","p","e","r","4">>, value |-> 83],
     [option |-> "BindEdge", name |-> <<"B","i","n","d","E","d","g","e">>, choice |-> <<"L","e","f","t">>, value |-> 50],
     [option |-> "BindEdge", name |-> <<"B","i","n","d","E","d","g","e">>, choice |-> <<"R","i","g","h","t">>, value |-> 52],
     [option |-> "BindEdge", name |-> <<"B","i","n","d","E","d","g","e">>, choice |-> <<"T","o","p">>, value |-> 51],
     [option |-> "BindEdge", name |-> <<"B","i","n","d","E","d","g","e">>, choice |-> <<"B","o","t","t","o","m">>, value |-> 53],
     [option |-> "FoldType", name |-> <<"F","o","l","d","T","y","p","e">>, choice |-> <<"Z","F","o","l","d">>, value |-> 100],
     [option |-> "FoldType", name |-> <<"F","o","l","d","T","y","p","e">>, choice |-> <<"S","a","d","d","l","e">>, value |-> 93],
     [option |-> "FoldType", name |-> <<"F","o","l","d","T","y","p","e">>, choice |-> <<"D","o","u","b","l","e","G","a","t","e">>, value |-> 91],
     [option |-> "FoldType", name |-> <<"F","o","l","d","T","y","p","e">>, choice |-> <<"L","e","f","t","G","a","t","e">>, value |-> 95],
     [option |-> "FoldType", name |-> <<"F","o","l","d","T","y","p","e">>, choice |-> <<"R","i","g","h","t","G","a","t","e">>, value |-> 99],
     [option |-> "FoldType", name |-> <<"F","o","l","d","T","y","p","e">>, choice |-> <<"L","e","t","t","e","r">>, value |-> 96],
     [option |-> "FoldType", name |-> <<"F","o","l","d","T","y","p","e">>, choice |-> <<"X","F","o","l","d">>, value |-> 98],
     [option |-> "RIFoldType", name |-> <<"R","I","F","o","l","d","T","y","p","e">>, choice |-> <<"O","u","t","s","i","d","e","T","w","o","F","o","l","d">>, value |-> 96] >>

\* ppd_pwg_add_finishing(finishings, template, name, value)
ppd_pwg_add_finishing(finishings, template, name, value) ==
  ppd_pwg_add_sorted(finishings,
    [value |-> template, options |-> OptionsText(cupsAddOption(name, value, <<>>))])

\* the entries of the attributes cupsIPPFinishings, from attribute i on
RECURSIVE VendorFinishings(_, _, _)
VendorFinishings(ppd, i, finishings) ==
  IF i > Len(ppd.attrs) THEN finishings
  ELSE VendorFinishings(ppd, i + 1,
         IF ppd.attrs[i].name = "cupsIPPFinishings"
           THEN ppd_pwg_add_sorted(finishings,
                  [value |-> atoi(ppd.attrs[i].spec),
                   options |-> OptionsText(ppdParseOptions(Words(ppd.attrs[i].value), <<>>))])
           ELSE finishings)

\* the entries for the common options of the description, from rule i on
RECURSIVE CommonFinishings(_, _, _)
CommonFinishings(ppd, i, finishings) ==
  IF i > Len(StandardFinishings) THEN finishings
  ELSE LET s == StandardFinishings[i]
       IN  CommonFinishings(ppd, i + 1,
             IF /\ ppdFindOption(ppd, s.option) # NullOption
                /\ ppdFindChoice(ppdFindOption(ppd, s.option), s.choice)
               THEN ppd_pwg_add_finishing(finishings, s.value, s.name, s.choice)
               ELSE finishings)

\* "Copy finishings mapping data": the table; an empty table is deleted
BuildFinishings(ppd) ==
  IF ppdFindAttr(ppd, "cupsIPPFinishings") # NullAttr
    THEN VendorFinishings(ppd, 1, <<>>)
    ELSE CommonFinishings(ppd, 1, <<>>)

\* the allocation sites of ppdCacheCreateWithPPD that are checked
BuildAllocSites == {"ppd_cache_t", "sizes", "sources", "types", "bins"}

\* cupsArrayAdd(pc->templates, value): the array is kept in the order of
\* strcmp, a value goes behind the values that are not greater
AddTemplate(templates, value) ==
  SubSeq(templates, 1,
         Cardinality({i \in 1..Len(templates) : ~StrLess(value, templates[i])}))
    \o <<value>>
    \o SubSeq(templates,
               Cardinality({i \in 1..Len(templates) : ~StrLess(value, templates[i])}) + 1,
               Len(templates))

\* the finishing templates: the choices of the option cupsFinishingTemplate
\* _ppdArrayAddStrings(a, s, ' '): the words of s that the array does not
\* hold yet are added, from word i on
RECURSIVE ppdArrayAddStrings(_, _, _)
ppdArrayAddStrings(a, words, i) ==
  IF i > Len(words) THEN a
  ELSE ppdArrayAddStrings(
         IF \E k \in 1..Len(a) : a[k] = words[i] THEN a ELSE AddTemplate(a, words[i]),
         words, i + 1)

RECURSIVE BuildTemplates(_, _, _)
BuildTemplates(choices, i, templates) ==
  IF i > Len(choices) THEN templates
  ELSE BuildTemplates(choices, i + 1, AddTemplate(templates, choices[i]))

\* ppdCacheCreateWithPPD(ppd) when the allocation at site nomem fails (none
\* fails for nomem = "none"): [cache, err]
ppdCacheCreateWithPPD(ppd, nomem) ==
  IF ppd = NullPPD THEN [cache |-> NullCache, err |-> NoErr]
  ELSE
    LET input_slot == FindFirstOption(ppd, <<"InputSlot", "HPPaperSource">>, 1)
        media_type == ppdFindOption(ppd, "MediaType")
        output_bin == ppdFindOption(ppd, "OutputBin")
        duplex     == FindFirstOption(ppd, DuplexKeywords, 1)
        reached    == {"ppd_cache_t"}
                      \cup (IF Len(ppd.sizes) > 0 THEN {"sizes"} ELSE {})
                      \cup (IF input_slot # NullOption THEN {"sources"} ELSE {})
                      \cup (IF media_type # NullOption THEN {"types"} ELSE {})
                      \cup (IF output_bin # NullOption THEN {"bins"} ELSE {})
        c1 == [EmptyCache EXCEPT
                 !.allocs = {"strings", "filters", "support_files"} \cup
                            (reached \ {"ppd_cache_t"}) \cup
                            (IF Len(BuildFinishings(ppd)) > 0
                               THEN {"finishings"} ELSE {}) \cup
                            (IF ppdFindOption(ppd, "cupsFinishingTemplate") # NullOption
                               THEN {"templates"} ELSE {}) \cup
                            (IF ppdFindAttr(ppd, "cupsJobPassword") # NullAttr
                               THEN {"password"} ELSE {}) \cup
                            (IF ppdFindAttr(ppd, "cupsMandatory") # NullAttr
                               THEN {"mandatory"} ELSE {}),
                 !.password =
                    IF ppdFindAttr(ppd, "cupsJobPassword") # NullAttr
                      THEN ppdFindAttr(ppd, "cupsJobPassword").value ELSE NullStr,
                 !.mandatory =
                    IF ppdFindAttr(ppd, "cupsMandatory") # NullAttr
                      THEN ppdArrayAddStrings(<<>>,
                             Words(ppdFindAttr(ppd, "cupsMandatory").value), 1)
                      ELSE <<>>,
                 !.templates =
                    IF ppdFindOption(ppd, "cupsFinishingTemplate") # NullOption
                      THEN BuildTemplates(
                             ppdFindOption(ppd, "cupsFinishingTemplate").choices, 1, <<>>)
                      ELSE <<>>,
                 !.sizes = BuildSizes(ppd.sizes, 1, <<>>),
                 !.source_option =
                    IF input_slot # NullOption THEN input_slot.name ELSE NullStr,
                 !.sources =
                    IF input_slot # NullOption
                      THEN BuildSources(input_slot.choices) ELSE <<>>,
                 !.types =
                    IF media_type # NullOption
                      THEN BuildTypes(media_type.choices) ELSE <<>>,
                 !.bins =
                    IF output_bin # NullOption
                      THEN BuildBins(output_bin.choices) ELSE <<>>,
                 !.sides_option =
                    IF duplex # NullOption THEN duplex.name ELSE NullStr,
                 !.filters = BuildFilters(ppd),
                 !.single_file =
                    ppdFindAttr(ppd, "cupsSingleFile") # NullAttr /\
                    ppd_strcasecmp(ppdFindAttr(ppd, "cupsSingleFile").value, <<"t","r","u","e">>),
                 !.product = ppd.product,
                 !.finishings = BuildFinishings(ppd),
                 !.max_copies =
                    IF ppdFindAttr(ppd, "cupsMaxCopies") # NullAttr
                      THEN atoi(ppdFindAttr(ppd, "cupsMaxCopies").value)
                    ELSE IF ppd.manual_copies THEN 1 ELSE 9999,
                 !.account_id =
                    ppdFindAttr(ppd, "cupsJobAccountId") # NullAttr /\
                    ppd_strcasecmp(ppdFindAttr(ppd, "cupsJobAccountId").value, <<"t","r","u","e">>),
                 !.accounting_user_id =
                    ppdFindAttr(ppd, "cupsJobAccountingUserId") # NullAttr /\
                    ppd_strcasecmp(ppdFindAttr(ppd, "cupsJobAccountingUserId").value,
                                   <<"t","r","u","e">>)]
        c2 == IF ppd.variable_sizes
                THEN [c1 EXCEPT
                        !.custom_max_keyword =
                           pwgFormatSizeName(<<"c","u","s","t","o","m">>, <<"m","a","x">>,
                                             PWG_FROM_POINTS(ppd.custom_max[1]),
                                             PWG_FROM_POINTS(ppd.custom_max[2])),
                        !.custom_max_width  = PWG_FROM_POINTS(ppd.custom_max[1]),
                        !.custom_max_length = PWG_FROM_POINTS(ppd.custom_max[2]),
                        !.custom_min_keyword =
                           pwgFormatSizeName(<<"c","u","s","t","o","m">>, <<"m","i","n">>,
                                             PWG_FROM_POINTS(ppd.custom_min[1]),
                                             PWG_FROM_POINTS(ppd.custom_min[2])),
                        !.custom_min_width  = PWG_FROM_POINTS(ppd.custom_min[1]),
                        !.custom_min_length = PWG_FROM_POINTS(ppd.custom_min[2]),
                        !.custom_size =
                           [ZeroSize EXCEPT
                              !.left   = PWG_FROM_POINTS(ppd.custom_margins[1]),
                              !.bottom = PWG_FROM_POINTS(ppd.custom_margins[2]),
                              !.right  = PWG_FROM_POINTS(ppd.custom_margins[3]),
                              !.top    = PWG_FROM_POINTS(ppd.custom_margins[4])]]
                ELSE c1
        c3 == IF duplex # NullOption
                THEN LET s == BuildSides(duplex.choices, 1,
                                         [sides_1sided |-> NullStr,
                                          sides_2sided_long |-> NullStr,
                                          sides_2sided_short |-> NullStr])
                     IN  [c2 EXCEPT !.sides_1sided = s.sides_1sided,
                                    !.sides_2sided_long = s.sides_2sided_long,
                                    !.sides_2sided_short = s.sides_2sided_short]
                ELSE c2
        \* the presets of the APPrinterPreset attributes; without one that is
        \* taken preset_added stays 0
        c4 == IF ExplicitPresets(ppd, 1, [grid |-> NoPresets.grid, added |-> FALSE]).added
                THEN WithPresets(c3,
                       [NoPresets EXCEPT !.grid =
                          GrayPresets(ppd,
                            ExplicitPresets(ppd, 1, [grid |-> NoPresets.grid,
                                                     added |-> FALSE]).grid)])
                ELSE ppdCacheAssignPresets(ppd, c3)
    IN  IF nomem \in reached
          THEN [cache |-> NullCache, err |-> Err(MsgNoMem, TRUE)]
          ELSE [cache |-> c4, err |-> NoErr]

(***************************************************************************)
(* ppdCacheWriteFile: the content written                                  *)
(***************************************************************************)
MapLines(keyword, table) ==
  [i \in 1..Len(table) |-> FormatLine(keyword, <<table[i].pwg, table[i].ppd>>)]

SizeLines(sizes) ==
  [i \in 1..Len(sizes) |->
     FormatLine(<<"S","i","z","e">>,
                <<sizes[i].pwg, sizes[i].ppd,
                  FormatInt(sizes[i].width), FormatInt(sizes[i].length),
                  FormatInt(sizes[i].left), FormatInt(sizes[i].bottom),
                  FormatInt(sizes[i].right), FormatInt(sizes[i].top)>>)]

BoolText(b) == IF b THEN <<"t","r","u","e">> ELSE <<"f","a","l","s","e">>

\* one line "<keyword> <string>" when the string is set
OptLine(keyword, str) ==
  IF str # NullStr THEN <<FormatLine(keyword, <<str>>)>> ELSE <<>>

PresetLines(c) ==
  LET cell(cm, q) ==
        IF c.presets[cm][q] # NullStr
          THEN <<FormatLine(<<"P","r","e","s","e","t">>,
                            <<FormatInt(cm), FormatInt(q), c.presets[cm][q]>>)>>
          ELSE <<>>
  IN  cell(0, 0) \o cell(0, 1) \o cell(0, 2) \o cell(1, 0) \o cell(1, 1) \o cell(1, 2)

OptimizePresetLines(c) ==
  LET cell(o) ==
        IF c.optimize_presets[o] # NullStr
          THEN <<FormatLine(<<"O","p","t","i","m","i","z","e","P","r","e","s","e","t">>, <<FormatInt(o), c.optimize_presets[o]>>)>>
          ELSE <<>>
  IN  cell(0) \o cell(1) \o cell(2) \o cell(3) \o cell(4)

\* the lines ppdCacheWriteFile prints after the header, in order
CacheLines(c, attrs) ==
     (IF Len(c.bins) > 0
        THEN <<FormatLine(<<"N","u","m","B","i","n","s">>, <<FormatInt(Len(c.bins))>>)>> \o
             MapLines(<<"B","i","n">>, c.bins)
        ELSE <<>>)
  \o <<FormatLine(<<"N","u","m","S","i","z","e","s">>, <<FormatInt(Len(c.sizes))>>)>>
  \o SizeLines(c.sizes)
  \o (IF c.custom_max_width > 0
        THEN <<FormatLine(<<"C","u","s","t","o","m","S","i","z","e">>,
                          <<FormatInt(c.custom_max_width), FormatInt(c.custom_max_length),
                            FormatInt(c.custom_min_width), FormatInt(c.custom_min_length),
                            FormatInt(c.custom_size.left), FormatInt(c.custom_size.bottom),
                            FormatInt(c.custom_size.right), FormatInt(c.custom_size.top)>>)>>
        ELSE <<>>)
  \o OptLine(<<"S","o","u","r","c","e","O","p","t","i","o","n">>, c.source_option)
  \o (IF Len(c.sources) > 0
        THEN <<FormatLine(<<"N","u","m","S","o","u","r","c","e","s">>, <<FormatInt(Len(c.sources))>>)>> \o
             MapLines(<<"S","o","u","r","c","e">>, c.sources)
        ELSE <<>>)
  \o (IF Len(c.types) > 0
        THEN <<FormatLine(<<"N","u","m","T","y","p","e","s">>, <<FormatInt(Len(c.types))>>)>> \o
             MapLines(<<"T","y","p","e">>, c.types)
        ELSE <<>>)
  \o PresetLines(c)
  \o OptimizePresetLines(c)
  \o OptLine(<<"S","i","d","e","s","O","p","t","i","o","n">>, c.sides_option)
  \o OptLine(<<"S","i","d","e","s","1","S","i","d","e","d">>, c.sides_1sided)
  \o OptLine(<<"S","i","d","e","s","2","S","i","d","e","d","L","o","n","g">>, c.sides_2sided_long)
  \o OptLine(<<"S","i","d","e","s","2","S","i","d","e","d","S","h","o","r","t">>, c.sides_2sided_short)
  \o (IF c.product # NullStr THEN <<cupsFilePutConf(<<"P","r","o","d","u","c","t">>, c.product)>> ELSE <<>>)
  \o [i \in 1..Len(c.filters) |-> cupsFilePutConf(<<"F","i","l","t","e","r">>, c.filters[i])]
  \o <<FormatLine(<<"S","i","n","g","l","e","F","i","l","e">>, <<BoolText(c.single_file)>>)>>
  \o [i \in 1..Len(c.finishings) |->
        FormatLine(<<"F","i","n","i","s","h","i","n","g","s">>,
                   <<FormatInt(c.finishings[i].value), c.finishings[i].options>>)]
  \o [i \in 1..Len(c.templates) |-> cupsFilePutConf(<<"F","i","n","i","s","h","i","n","g","T","e","m","p","l","a","t","e">>, c.templates[i])]
  \o <<FormatLine(<<"M","a","x","C","o","p","i","e","s">>, <<FormatInt(c.max_copies)>>)>>
  \o <<FormatLine(<<"J","o","b","A","c","c","o","u","n","t","I","d">>, <<BoolText(c.account_id)>>)>>
  \o <<FormatLine(<<"J","o","b","A","c","c","o","u","n","t","i","n","g","U","s","e","r","I","d">>, <<BoolText(c.accounting_user_id)>>)>>
  \o (IF c.password # NullStr THEN <<cupsFilePutConf(<<"J","o","b","P","a","s","s","w","o","r","d">>, c.password)>> ELSE <<>>)
  \o [i \in 1..Len(c.mandatory) |-> cupsFilePutConf(<<"M","a","n","d","a","t","o","r","y">>, c.mandatory[i])]
  \o (IF attrs # NullIpp
        THEN <<FormatLine(<<"I","P","P">>, <<FormatInt(ippGetLength(attrs))>>)>>
        ELSE <<>>)

\* the file ppdCacheWriteFile produces for cache c and attributes attrs
WrittenFile(c, attrs) ==
  [ header |-> Magic \o FormatInt(PPD_CACHE_VERSION),
    lines  |-> CacheLines(c, attrs),
    tail   |-> IF attrs # NullIpp THEN IppEncode(attrs) ELSE <<>> ]

(***************************************************************************)
(* ppdCacheCreateWithFile                                                  *)
(***************************************************************************)
PPD_PWG_PRINT_COLOR_MODE_MAX == 2

PPD_PWG_PRINT_QUALITY_MAX == 3

PPD_PWG_PRINT_CONTENT_OPTIMIZE_MAX == 5

MaxTableEntries == 65536

\* strtol(s, &end, 10): [val, rest, any]; any is FALSE when no digits were
\* converted (end = s)
Strtol(s) ==
  LET r == ScanD(s)
  IN  IF r.ok THEN [val |-> r.val, rest |-> r.rest, any |-> TRUE]
      ELSE [val |-> 0, rest |-> s, any |-> FALSE]

\* the state of the read loop: the cache being filled, the declared counts
\* and the caller's *attrs
ReadInit ==
  [ pc |-> [EmptyCache EXCEPT !.max_copies = 9999],
    num_bins |-> 0, num_sizes |-> 0, num_sources |-> 0, num_types |-> 0,
    attrs |-> NullIpp ]

\* results of handling one directive: continue with the next line, continue
\* at a new file position (rest = the bytes from there on), or fail
Continue(st) ==
  [ok |-> TRUE, moved |-> FALSE, st |-> st, rest |-> <<>>, err |-> NoErr, env |-> "ok"]

ContinueAt(st, rest) ==
  [ok |-> TRUE, moved |-> TRUE, st |-> st, rest |-> rest, err |-> NoErr, env |-> "ok"]

\* env names the failing allocation when that is what stops the read
Fail(st, err, env) ==
  [ok |-> FALSE, moved |-> FALSE, st |-> st, rest |-> <<>>, err |-> err, env |-> env]

Bad(st) == Fail(st, Err(MsgBad, TRUE), "ok")

NoMem(st, array) == Fail(st, Err("strerror(errno)", FALSE), array)

Kw(line, keyword) == ppd_strcasecmp(line, keyword)

\* the "IPP <length>" directive; after holds the bytes that follow the line.
\* cupsFileSeek reaches a position within the file; a position beyond its
\* end is not reached and the cursor is left at the end
HandleIPP(st, value, after, want_attrs) ==
  LET length == atoi(value)
      rd     == ippReadIO(after)
      \* cupsFileTell relative to the byte after the directive line
      tell   == IF want_attrs THEN rd.used
                ELSE IF length <= Len(after) THEN length ELSE Len(after)
      st1    == IF want_attrs THEN [st EXCEPT !.attrs = rd.ipp] ELSE st
  IN  IF want_attrs /\ st.attrs # NullIpp THEN Bad(st)
      ELSE IF length <= 0 THEN Bad(st)
      ELSE IF want_attrs /\ ~rd.ok THEN Bad(st)
      ELSE IF tell # length THEN Bad(st1)
      ELSE ContinueAt(st1, Drop(after, length))

\* "Num<Table> <n>": declared is the count declared so far, lowest the
\* smallest count accepted
HandleNum(st, value, field, array, lowest, nomem) ==
  LET n == atoi(value)
  IN  IF st[field] > 0 THEN Bad(st)
      ELSE IF n < lowest \/ n > MaxTableEntries THEN Bad(st)
      ELSE IF n > 0 /\ nomem = array THEN NoMem([st EXCEPT ![field] = n], array)
      ELSE Continue([st EXCEPT ![field] = n,
                               !.pc.allocs = IF n > 0 THEN @ \cup {array} ELSE @])

\* "Bin", "Source" and "Type": scan first, then the count check
HandleMap(st, value, field, table) ==
  LET k == ScanKeywords(value)
  IN  IF k.count # 2 THEN Bad(st)
      ELSE IF Len(st.pc[table]) >= st[field] THEN Bad(st)
      ELSE Continue([st EXCEPT !.pc[table] = Append(@, [pwg |-> k.pwg, ppd |-> k.ppd])])

\* "Size": the count check first, then the scan (k: the two names, v: the
\* six numbers scanned)
ScannedSize(st, k, v) ==
  IF Len(st.pc.sizes) >= st.num_sizes THEN Bad(st)
  ELSE IF Len(v) # 6 THEN Bad(st)
  ELSE Continue([st EXCEPT !.pc.sizes =
                   Append(@, [pwg |-> k.pwg, ppd |-> k.ppd,
                              width |-> v[1], length |-> v[2], left |-> v[3],
                              bottom |-> v[4], right |-> v[5], top |-> v[6]])])

ScanSize(st, k) ==
  ScannedSize(st, k, IF k.count = 2 THEN ScanInts(k.rest, 6, <<>>) ELSE <<>>)

HandleSize(st, value) == ScanSize(st, ScanKeywords(value))

HandleCustomSize(st, value) ==
  LET v == ScanInts(value, 8, <<>>)
  IN  IF st.pc.custom_max_width > 0 THEN Bad(st)
      ELSE IF Len(v) # 8 THEN Bad(st)
      ELSE Continue([st EXCEPT
             !.pc.custom_max_width = v[1], !.pc.custom_max_length = v[2],
             !.pc.custom_min_width = v[3], !.pc.custom_min_length = v[4],
             !.pc.custom_size = [ZeroSize EXCEPT !.left = v[5], !.bottom = v[6],
                                                 !.right = v[7], !.top = v[8]],
             !.pc.custom_max_keyword = pwgFormatSizeName(<<"c","u","s","t","o","m">>, <<"m","a","x">>, v[1], v[2]),
             !.pc.custom_min_keyword = pwgFormatSizeName(<<"c","u","s","t","o","m">>, <<"m","i","n">>, v[3], v[4])])

HandlePreset(st, value) ==
  LET a == Strtol(value)
      b == Strtol(a.rest)
  IN  IF \/ a.val < 0 \/ a.val >= PPD_PWG_PRINT_COLOR_MODE_MAX
         \/ b.val < 0 \/ b.val >= PPD_PWG_PRINT_QUALITY_MAX
         \/ (~a.any /\ ~b.any) \/ Len(b.rest) = 0
        THEN Bad(st)
        ELSE Continue([st EXCEPT !.pc.presets[a.val][b.val] = StripLeadingSpace(b.rest),
                                 !.pc.allocs = @ \cup {"presets"}])

HandleOptimizePreset(st, value) ==
  LET a == Strtol(value)
  IN  IF \/ a.val < 0 \/ a.val >= PPD_PWG_PRINT_CONTENT_OPTIMIZE_MAX
         \/ ~a.any \/ Len(a.rest) = 0
        THEN Bad(st)
        ELSE Continue([st EXCEPT !.pc.optimize_presets[a.val] = StripLeadingSpace(a.rest),
                                 !.pc.allocs = @ \cup {"optimize_presets"}])

HandleFinishings(st, value, nomem) ==
  LET a == Strtol(value)
      s == [st EXCEPT !.pc.allocs = @ \cup {"finishings"}]
  IN  IF nomem = "finishing"
        THEN Fail(s, NoErr, "finishing")
        ELSE Continue([s EXCEPT !.pc.finishings =
                         ppd_pwg_add_sorted(@, [value |-> a.val,
                                                options |-> StripLeadingSpace(a.rest)])])

\* a strict reader: a keyword it does not know ends the read
UnknownKeywordRejected(st) == Bad(st)

\* the last else of the dispatch: the keyword is none of the known ones
UnknownKeyword(st) == Continue(st)

\* the dispatch on the directive keyword of one line; after holds the bytes
\* of the file that follow the line
HandleLine(st, line, value, after, want_attrs, nomem) ==
  IF value = NullStr THEN Bad(st)
  ELSE IF Kw(line, <<"F","i","l","t","e","r">>)
    THEN Continue([st EXCEPT !.pc.filters = Append(@, value),
                             !.pc.allocs = @ \cup {"filters"}])
  ELSE IF Kw(line, <<"P","r","e","F","i","l","t","e","r">>)
    THEN Continue([st EXCEPT !.pc.allocs = @ \cup {"prefilters"}])
  ELSE IF st.pc.product = NullStr /\ Kw(line, <<"P","r","o","d","u","c","t">>)
    THEN Continue([st EXCEPT !.pc.product = value])
  ELSE IF Kw(line, <<"S","i","n","g","l","e","F","i","l","e">>)
    THEN Continue([st EXCEPT !.pc.single_file = ppd_strcasecmp(value, <<"t","r","u","e">>)])
  ELSE IF Kw(line, <<"I","P","P">>) THEN HandleIPP(st, value, after, want_attrs)
  ELSE IF Kw(line, <<"N","u","m","B","i","n","s">>) THEN HandleNum(st, value, "num_bins", "bins", 1, nomem)
  ELSE IF Kw(line, <<"B","i","n">>) THEN HandleMap(st, value, "num_bins", "bins")
  ELSE IF Kw(line, <<"N","u","m","S","i","z","e","s">>) THEN HandleNum(st, value, "num_sizes", "sizes", 0, nomem)
  ELSE IF Kw(line, <<"S","i","z","e">>) THEN HandleSize(st, value)
  ELSE IF Kw(line, <<"C","u","s","t","o","m","S","i","z","e">>) THEN HandleCustomSize(st, value)
  ELSE IF Kw(line, <<"S","o","u","r","c","e","O","p","t","i","o","n">>)
    THEN Continue([st EXCEPT !.pc.source_option = value])
  ELSE IF Kw(line, <<"N","u","m","S","o","u","r","c","e","s">>)
    THEN HandleNum(st, value, "num_sources", "sources", 1, nomem)
  ELSE IF Kw(line, <<"S","o","u","r","c","e">>) THEN HandleMap(st, value, "num_sources", "sources")
  ELSE IF Kw(line, <<"N","u","m","T","y","p","e","s">>) THEN HandleNum(st, value, "num_types", "types", 1, nomem)
  ELSE IF Kw(line, <<"T","y","p","e">>) THEN HandleMap(st, value, "num_types", "types")
  ELSE IF Kw(line, <<"P","r","e","s","e","t">>) THEN HandlePreset(st, value)
  ELSE IF Kw(line, <<"O","p","t","i","m","i","z","e","P","r","e","s","e","t">>) THEN HandleOptimizePreset(st, value)
  ELSE IF Kw(line, <<"S","i","d","e","s","O","p","t","i","o","n">>) THEN Continue([st EXCEPT !.pc.sides_option = value])
  ELSE IF Kw(line, <<"S","i","d","e","s","1","S","i","d","e","d">>) THEN Continue([st EXCEPT !.pc.sides_1sided = value])
  ELSE IF Kw(line, <<"S","i","d","e","s","2","S","i","d","e","d","L","o","n","g">>)
    THEN Continue([st EXCEPT !.pc.sides_2sided_long = value])
  ELSE IF Kw(line, <<"S","i","d","e","s","2","S","i","d","e","d","S","h","o","r","t">>)
    THEN Continue([st EXCEPT !.pc.sides_2sided_short = value])
  ELSE IF Kw(line, <<"F","i","n","i","s","h","i","n","g","s">>) THEN HandleFinishings(st, value, nomem)
  ELSE IF Kw(line, <<"F","i","n","i","s","h","i","n","g","T","e","m","p","l","a","t","e">>)
    THEN Continue([st EXCEPT !.pc.allocs = @ \cup {"templates"},
                             !.pc.templates = AddTemplate(@, value)])
  ELSE IF Kw(line, <<"M","a","x","C","o","p","i","e","s">>) THEN Continue([st EXCEPT !.pc.max_copies = atoi(value)])
  ELSE IF Kw(line, <<"C","h","a","r","g","e","I","n","f","o","U","R","I">>)
    THEN Continue([st EXCEPT !.pc.allocs = @ \cup {"charge_info_uri"}])
  ELSE IF Kw(line, <<"J","o","b","A","c","c","o","u","n","t","I","d">>)
    THEN Continue([st EXCEPT !.pc.account_id = ppd_strcasecmp(value, <<"t","r","u","e">>)])
  ELSE IF Kw(line, <<"J","o","b","A","c","c","o","u","n","t","i","n","g","U","s","e","r","I","d">>)
    THEN Continue([st EXCEPT !.pc.accounting_user_id = ppd_strcasecmp(value, <<"t","r","u","e">>)])
  ELSE IF Kw(line, <<"J","o","b","P","a","s","s","w","o","r","d">>)
    THEN Continue([st EXCEPT !.pc.allocs = @ \cup {"password"}, !.pc.password = value])
  ELSE IF Kw(line, <<"M","a","n","d","a","t","o","r","y">>)
    THEN Continue([st EXCEPT !.pc.allocs = @ \cup {"mandatory"},
                             !.pc.mandatory = ppdArrayAddStrings(@, Words(value), 1)])
  ELSE IF Kw(line, <<"S","u","p","p","o","r","t","F","i","l","e">>)
    THEN Continue([st EXCEPT !.pc.allocs = @ \cup {"support_files"}])
  ELSE UnknownKeyword(st)

\* what ppdCacheCreateWithFile hands back: the cache, the caller's *attrs,
\* the set_error call made (if any) and the allocations left live that no
\* returned object owns
ReadResult(cache, attrs, err, leaked, env) ==
  [cache |-> cache, attrs |-> attrs, err |-> err, leaked |-> leaked, env |-> env]

\* create_error: close, ppdCacheDestroy(pc), ippDelete(*attrs), *attrs = NULL
CreateError(st, err, env) ==
  ReadResult(NullCache, NullIpp, err, ppdCacheDestroy(st.pc), env)

\* the checks after the last line
ReadFinish(st) ==
  IF Len(st.pc.sizes) < st.num_sizes THEN CreateError(st, Err(MsgBad, TRUE), "ok")
  ELSE IF Len(st.pc.sources) < st.num_sources THEN CreateError(st, Err(MsgBad, TRUE), "ok")
  ELSE IF Len(st.pc.types) < st.num_types THEN CreateError(st, Err(MsgBad, TRUE), "ok")
  ELSE ReadResult(st.pc, st.attrs, NoErr, {}, "ok")

\* the while (cupsFileGetConf(...)) loop: lines are the text lines still to
\* be read, tail the raw bytes after them
RECURSIVE ReadLoop(_, _, _, _, _)
\* after the line's handler: r is what it returned
ReadNext(r, nextLines, nextTail, want_attrs, nomem) ==
  IF ~r.ok THEN CreateError(r.st, r.err, r.env)
  ELSE IF r.moved THEN ReadLoop(r.st, <<>>, r.rest, want_attrs, nomem)
  ELSE ReadLoop(r.st, nextLines, nextTail, want_attrs, nomem)

\* one line, split by cupsFileGetConf into conf
ReadLine(st, conf, nextLines, nextTail, want_attrs, nomem) ==
  IF conf.blank THEN ReadLoop(st, nextLines, nextTail, want_attrs, nomem)
  ELSE ReadNext(HandleLine(st, conf.line, conf.value,
                           LinesBytes(nextLines) \o nextTail, want_attrs, nomem),
                nextLines, nextTail, want_attrs, nomem)

ReadLoop(st, lines, tail, want_attrs, nomem) ==
  IF Len(lines) = 0 /\ Len(tail) = 0 THEN ReadFinish(st)
  ELSE IF Len(lines) = 0
    THEN ReadLine(st, cupsFileGetConf(NextLine(tail).line), <<>>, NextLine(tail).rest,
                  want_attrs, nomem)
  ELSE ReadLine(st, cupsFileGetConf(Head(lines)), Tail(lines), tail, want_attrs, nomem)

NoFile == [absent |-> TRUE]

\* a file without content
EmptyFile == [header |-> NullStr, lines |-> <<>>, tail |-> <<>>]

\* ppdCacheCreateWithFile(filename, attrs): file is what the name holds
\* (NoFile when nothing does), named is FALSE for a NULL filename, io is
\* "open" when the open fails for another reason than a missing file, nomem
\* the allocation that fails (if reached)
ppdCacheCreateWithFile(named, file, want_attrs, io, nomem) ==
  IF ~named THEN ReadResult(NullCache, NullIpp, Err("strerror(EINVAL)", FALSE), {}, "ok")
  ELSE IF io = "open"
    THEN ReadResult(NullCache, NullIpp, Err("strerror(errno)", FALSE), {}, "open")
  ELSE IF file = NoFile
    THEN ReadResult(NullCache, NullIpp, Err("strerror(errno)", FALSE), {}, "ok")
  ELSE IF file.header = NullStr
    THEN ReadResult(NullCache, NullIpp, Err("strerror(errno)", FALSE), {}, "ok")
  ELSE IF ~strncmp(file.header, Magic, 16)
    THEN ReadResult(NullCache, NullIpp, Err(MsgBad, TRUE), {}, "ok")
  ELSE IF atoi(Drop(file.header, 16)) # PPD_CACHE_VERSION
    THEN ReadResult(NullCache, NullIpp, Err(MsgOutOfDate, TRUE), {}, "ok")
  ELSE IF nomem = "ppd_cache_t"
    THEN ReadResult(NullCache, NullIpp, Err("strerror(errno)", FALSE), {}, "ppd_cache_t")
  ELSE ReadLoop(ReadInit, file.lines, file.tail, want_attrs, nomem)

(***************************************************************************)
(* The device descriptions of a print queue.  None has an option that      *)
(* ppdCacheAssignPresets or the finishings code would pick up.             *)
(***************************************************************************)
Letter == [name |-> <<"L","e","t","t","e","r">>, width |-> Pt(612), length |-> Pt(792),
           left |-> Pt(18), bottom |-> Pt(36), right |-> Pt(594), top |-> Pt(756)]

A4 == [name |-> <<"A","4">>, width |-> Pt(595), length |-> Pt(842),
       left |-> Pt(18), bottom |-> Pt(36), right |-> Pt(577), top |-> Pt(806)]

NoCustom == <<0, 0>>

NoMargins == <<0, 0, 0, 0>>

\* an office printer: two trays, two media types, one bin, duplex, custom
\* sizes, a copy limit
OfficePPD ==
  [ sizes |-> <<Letter, A4>>,
    options |-> << [keyword |-> "InputSlot", name |-> <<"I","n","p","u","t","S","l","o","t">>,
                    choices |-> <<<<"C","a","s","s","e","t","t","e">>, <<"U","p","p","e","r">>>>,
                    group |-> <<"G","e","n","e","r","a","l">>, defchoice |-> <<"C","a","s","s","e","t","t","e">>],
                   [keyword |-> "MediaType", name |-> <<"M","e","d","i","a","T","y","p","e">>,
                    choices |-> <<<<"P","l","a","i","n">>, <<"G","l","o","s","s","y">>>>,
                    group |-> <<"G","e","n","e","r","a","l">>, defchoice |-> <<"P","l","a","i","n">>],
                   [keyword |-> "OutputBin", name |-> <<"O","u","t","p","u","t","B","i","n">>,
                    choices |-> <<<<"F","a","c","e","D","o","w","n">>>>,
                    group |-> <<"G","e","n","e","r","a","l">>, defchoice |-> <<"F","a","c","e","D","o","w","n">>],
                   [keyword |-> "Duplex", name |-> <<"D","u","p","l","e","x">>,
                    choices |-> <<<<"N","o","n","e">>, <<"D","u","p","l","e","x","N","o","T","u","m","b","l","e">>, <<"D","u","p","l","e","x","T","u","m","b","l","e">>>>,
                    group |-> <<"G","e","n","e","r","a","l">>, defchoice |-> <<"N","o","n","e">>] >>,
    attrs |-> << [name |-> "cupsMaxCopies", spec |-> <<>>, value |-> <<"9","9">>] >>,
    filters |-> <<>>, product |-> <<"(","O","f","f","i","c","e",")">>,
    variable_sizes |-> TRUE, custom_min |-> <<Pt(72), Pt(72)>>,
    custom_max |-> <<Pt(612), Pt(1008)>>,
    custom_margins |-> <<Pt(18), Pt(36), Pt(18), Pt(36)>>, manual_copies |-> FALSE,
    color_device |-> FALSE, nickname |-> NullStr, hw_resolution |-> <<100, 100>> ]

\* a description with one page size and nothing else
MinimalPPD ==
  [ sizes |-> <<A4>>, options |-> <<>>, attrs |-> <<>>,
    filters |-> <<>>, product |-> NullStr,
    variable_sizes |-> FALSE, custom_min |-> NoCustom, custom_max |-> NoCustom,
    custom_margins |-> NoMargins, manual_copies |-> TRUE,
    color_device |-> FALSE, nickname |-> NullStr, hw_resolution |-> <<100, 100>> ]

\* several automatic trays and media types, bins whose names differ in
\* spelling only
AutoPPD ==
  [ sizes |-> <<Letter>>,
    options |-> << [keyword |-> "InputSlot", name |-> <<"I","n","p","u","t","S","l","o","t">>,
                    choices |-> <<<<"A","u","t","o">>, <<"A","u","t","o","S","e","l","e","c","t">>>>,
                    group |-> <<"G","e","n","e","r","a","l">>, defchoice |-> <<"A","u","t","o">>],
                   [keyword |-> "MediaType", name |-> <<"M","e","d","i","a","T","y","p","e">>,
                    choices |-> <<<<"A","u","t","o">>, <<"A","n","y">>>>,
                    group |-> <<"G","e","n","e","r","a","l">>, defchoice |-> <<"A","u","t","o">>],
                   [keyword |-> "OutputBin", name |-> <<"O","u","t","p","u","t","B","i","n">>,
                    choices |-> <<<<"T","r","a","y","1">>, <<"t","r","a","y","-","1">>>>,
                    group |-> <<"G","e","n","e","r","a","l">>, defchoice |-> <<"T","r","a","y","1">>] >>,
    attrs |-> <<>>, filters |-> <<>>, product |-> <<"(","A","u","t","o",")">>,
    variable_sizes |-> FALSE, custom_min |-> NoCustom, custom_max |-> NoCustom,
    custom_margins |-> NoMargins, manual_copies |-> FALSE,
    color_device |-> FALSE, nickname |-> NullStr, hw_resolution |-> <<100, 100>> ]

\* an output bin whose name consists of a separator character only
SeparatorPPD ==
  [ sizes |-> <<Letter>>,
    options |-> << [keyword |-> "OutputBin", name |-> <<"O","u","t","p","u","t","B","i","n">>,
                    choices |-> <<<<"_">>>>,
                    group |-> <<"G","e","n","e","r","a","l">>, defchoice |-> <<"_">>] >>,
    attrs |-> <<>>, filters |-> <<>>, product |-> NullStr,
    variable_sizes |-> FALSE, custom_min |-> NoCustom, custom_max |-> NoCustom,
    custom_margins |-> NoMargins, manual_copies |-> FALSE,
    color_device |-> FALSE, nickname |-> NullStr, hw_resolution |-> <<100, 100>> ]

PPDs == {OfficePPD, MinimalPPD, AutoPPD, SeparatorPPD}

(***************************************************************************)
(* The state machine.  The caller is a print queue: it builds the cache of *)
(* a device description, stores it under the queue's file name (and again  *)
(* after a successful store), and later loads the stored file.  The        *)
(* environment may change the stored file before it is loaded.             *)
(***************************************************************************)
VARIABLES
  catalog,                   \* the message catalog of the default locale
  phase,                     \* the caller's position
  pc,                        \* the cache ppdCacheCreateWithPPD returned
  file,                      \* what the file name holds
  temp,                      \* what the sibling "<filename>.N" holds
  written,                   \* the cache and attributes the file was written from
  tamper,                    \* what the environment has done to the file since
  ppd_cache_status_message,  \* the last status message
  last,                      \* the most recent call and what it returned
  held,                      \* the size pointer each caller of a query holds
  raster_buf,                \* the raster error buffer, "buf" of raster-error.c
  errors                     \* the messages handed to it since it was last cleared

vars ==
  <<catalog, phase, pc, file, temp, written, tamper, ppd_cache_status_message, last,
    held, raster_buf, errors>>

\* how many changes the environment makes to one stored file
MaxTamper == 1

NoTamper == [count |-> 0, kind |-> "none", arg |-> <<>>, pos |-> "-"]

NotWritten == [cache |-> NullCache, attrs |-> NullIpp]

\* the callers of the size queries; none holds a pointer yet
Callers == {"job-1", "job-2"}

\* a pointer to a pwg_size_t: NULL, the address of the record embedded in
\* the cache, the address of an entry of pc->sizes
NullSizePtr == [at |-> "NULL", index |-> 0]

CustomSizePtr == [at |-> "custom_size", index |-> 0]

TablePtr(i) == [at |-> "sizes", index |-> i]

NoneHeld == [a \in Callers |-> [ptr |-> NullSizePtr, asked |-> <<>>]]

\* static _ppd_raster_error_t *buf = NULL;
NullBuf == [at |-> "NULL", start |-> "NULL", size |-> 0, text |-> <<>>]

NoCall ==
  [ op |-> "none", ok |-> TRUE, err |-> NoErr, named |-> TRUE, want_attrs |-> FALSE,
    env |-> "ok", cache |-> NullCache, attrs |-> NullIpp, leaked |-> {} ]

Init ==
  /\ catalog \in Catalogs
  /\ phase = "idle"
  /\ pc = NullCache
  /\ file = NoFile
  /\ temp = NoFile
  /\ written = NotWritten
  /\ tamper = NoTamper
  /\ ppd_cache_status_message = "(null)"
  /\ last = NoCall
  /\ held = NoneHeld
  /\ raster_buf = NullBuf
  /\ errors = <<>>

\* pc = ppdCacheCreateWithPPD(ppd)
CreateWithPPD ==
  /\ phase = "idle"
  /\ \E ppd \in PPDs \cup {NullPPD}, nomem \in BuildAllocSites \cup {"none"} :
     \E r \in {ppdCacheCreateWithPPD(ppd, nomem)} :
           /\ nomem = "none" \/ r.err.called
           /\ pc' = r.cache
           /\ ppd_cache_status_message' =
                set_error(catalog, ppd_cache_status_message, r.err)
           /\ last' = [NoCall EXCEPT !.op = "build", !.ok = (r.cache # NullCache),
                                     !.err = r.err]
  /\ phase' = "built"
  /\ UNCHANGED <<catalog, file, temp, written, tamper, held, raster_buf, errors>>

\* ppdCacheWriteFile(pc, filename, attrs): [ret, err, file, temp]; io names
\* the system call that fails ("ok": none)
ppdCacheWriteFile(c, named, attrs, io, oldfile, oldtemp) ==
  IF c = NullCache \/ ~named
    THEN [ret |-> 0, err |-> Err("strerror(EINVAL)", FALSE),
          file |-> oldfile, temp |-> oldtemp]
  ELSE IF io = "open"
    THEN [ret |-> 0, err |-> Err("strerror(errno)", FALSE),
          file |-> oldfile, temp |-> oldtemp]
  ELSE IF io = "close"
    THEN [ret |-> 0, err |-> NoErr, file |-> oldfile, temp |-> NoFile]
  ELSE IF io = "rename"
    THEN [ret |-> 0, err |-> NoErr, file |-> NoFile, temp |-> WrittenFile(c, attrs)]
  ELSE [ret |-> 1, err |-> NoErr, file |-> WrittenFile(c, attrs), temp |-> NoFile]

\* the caller stores the cache it built; it may store it again after a
\* successful store as long as nothing else has happened to the file
WriteFile ==
  /\ phase = "built" \/ (phase = "stored" /\ last.op = "write" /\ last.ok)
  /\ \E named \in BOOLEAN, attrs \in IppSets \cup {NullIpp},
        io \in {"ok", "open", "close", "rename"} :
     \E r \in {ppdCacheWriteFile(pc, named, attrs, io, file, temp)} :
           /\ file' = r.file
           /\ temp' = r.temp
           /\ written' = IF r.ret = 1 THEN [cache |-> pc, attrs |-> attrs]
                          ELSE IF r.file = NoFile THEN NotWritten ELSE written
           /\ ppd_cache_status_message' =
                set_error(catalog, ppd_cache_status_message, r.err)
           /\ last' = [NoCall EXCEPT !.op = "write", !.ok = (r.ret = 1), !.err = r.err]
  /\ phase' = "stored"
  /\ UNCHANGED <<catalog, pc, tamper, held, raster_buf, errors>>

\* the allocations of ppdCacheCreateWithFile
ReadAllocSites == {"ppd_cache_t", "sizes", "finishing"}

\* does a line of the directives start with the keyword?
HasDirective(f, keyword) ==
  /\ f # NoFile
  /\ \E i \in 1..Len(f.lines) :
       ppd_strncasecmp(StripLeadingSpace(f.lines[i]), keyword, Len(keyword))

\* rd = ppdCacheCreateWithFile(filename, want_attrs ? &attrs2 : NULL); the
\* allocation of a finishings entry can only fail where a Finishings
\* directive makes it
CreateWithFile ==
  /\ phase = "stored"
  /\ \E named \in BOOLEAN, want_attrs \in BOOLEAN, io \in {"ok", "open"},
        nomem \in ReadAllocSites \cup {"none"} :
     /\ io = "ok" \/ nomem = "none"
     /\ named \/ (io = "ok" /\ nomem = "none")
     /\ nomem = "finishing" => HasDirective(file, <<"F","i","n","i","s","h","i","n","g","s">>)
     /\ \E r \in {ppdCacheCreateWithFile(named, file, want_attrs, io, nomem)} :
           /\ ppd_cache_status_message' =
                set_error(catalog, ppd_cache_status_message, r.err)
           /\ last' = [NoCall EXCEPT !.op = "read", !.ok = (r.cache # NullCache),
                                     !.err = r.err, !.want_attrs = want_attrs,
                                     !.env = r.env, !.named = named,
                                     !.cache = r.cache, !.attrs = r.attrs,
                                     !.leaked = r.leaked]
  /\ phase' = "loaded"
  /\ UNCHANGED <<catalog, pc, file, temp, written, tamper, held, raster_buf, errors>>

\* ppdCacheDestroy(pc) of the cache that was built, or ppdCacheDestroy(rd)
\* of the cache that was loaded: leaked is what stays allocated
Destroy ==
  /\ \/ phase = "built" /\ pc # NullCache
     \/ phase = "loaded" /\ last.cache # NullCache
  /\ \E c \in {IF phase = "built" THEN pc ELSE last.cache} :
        last' = [NoCall EXCEPT !.op = "destroy", !.cache = c,
                               !.env = IF phase = "built" THEN "built" ELSE "loaded",
                               !.leaked = ppdCacheDestroy(c)]
  /\ pc' = IF phase = "built" THEN NullCache ELSE pc
  /\ phase' = "destroyed"
  /\ UNCHANGED <<catalog, file, temp, written, tamper, ppd_cache_status_message, held,
                 raster_buf, errors>>

(***************************************************************************)
(* The environment: another writer of the file (an older or newer version  *)
(* of the library, a truncating copy, an editor)                           *)
(***************************************************************************)
\* the index of the first line with the directive keyword, 0 if none
FirstLine(lines, keyword) ==
  LET hits == {i \in 1..Len(lines) : cupsFileGetConf(lines[i]).line = keyword}
  IN  IF hits = {} THEN 0 ELSE CHOOSE i \in hits : \A j \in hits : i <= j

InsertAt(lines, i, l) == SubSeq(lines, 1, i) \o <<l>> \o SubSeq(lines, i + 1, Len(lines))

DeleteAt(lines, i) == SubSeq(lines, 1, i - 1) \o SubSeq(lines, i + 1, Len(lines))

CanTamper ==
  /\ phase = "stored"
  /\ file # NoFile
  /\ file.header # NullStr
  /\ tamper.count < MaxTamper

Tampered(kind, arg, pos) ==
  /\ tamper' = [count |-> tamper.count + 1, kind |-> kind, arg |-> arg, pos |-> pos]
  /\ last' = [NoCall EXCEPT !.op = "tamper"]
  /\ UNCHANGED <<catalog, phase, pc, temp, written, ppd_cache_status_message, held,
                 raster_buf, errors>>

\* version suffixes another writer may leave after the magic prefix
VersionSuffixes == {<<"1","0">>, <<"1","2">>, <<"1","1","x">>, <<"0","1","1">>, <<" ","1","1">>}

\* first lines that do not start with the magic prefix
ForeignHeaders == {<<"#","C","U","P","S","-","P","P","D","-","C","A","C","H","F","-","1","1">>, <<>>}

SetVersion ==
  /\ CanTamper
  /\ \E s \in VersionSuffixes :
       /\ file' = [file EXCEPT !.header = Magic \o s]
       /\ Tampered("version", s, "-")

SetHeader ==
  /\ CanTamper
  /\ \E h \in ForeignHeaders :
       /\ file' = [file EXCEPT !.header = h]
       /\ Tampered("header", h, "-")

\* the file is cut down to nothing
Truncate ==
  /\ CanTamper
  /\ file' = EmptyFile
  /\ Tampered("truncate", <<>>, "-")

\* changes of the length the IPP directive declares
IppLengthDeltas == {-4, -1, 1}

SetIppLength ==
  /\ CanTamper
  /\ FirstLine(file.lines, <<"I","P","P">>) > 0
  /\ \E d \in IppLengthDeltas \cup {0} :
       LET i == FirstLine(file.lines, <<"I","P","P">>)
           n == atoi(cupsFileGetConf(file.lines[i]).value)
           m == IF d = 0 THEN 0 ELSE n + d
       IN  /\ m >= 0
           /\ file' = [file EXCEPT !.lines[i] = FormatLine(<<"I","P","P">>, <<FormatInt(m)>>)]
           /\ Tampered("ipp-length", FormatInt(m), "-")

\* the directives of the four tables
CountKeywords == {<<"N","u","m","B","i","n","s">>, <<"N","u","m","S","i","z","e","s">>, <<"N","u","m","S","o","u","r","c","e","s">>, <<"N","u","m","T","y","p","e","s">>}

DetailKeywords == {<<"B","i","n">>, <<"S","i","z","e">>, <<"S","o","u","r","c","e">>, <<"T","y","p","e">>}

\* a line of a table is lost
DeleteLine ==
  /\ CanTamper
  /\ \E k \in CountKeywords \cup DetailKeywords :
       LET i == FirstLine(file.lines, k)
       IN  /\ i > 0
           /\ file' = [file EXCEPT !.lines = DeleteAt(@, i)]
           /\ Tampered("delete", k, "-")

\* a line of a table appears twice
DuplicateLine ==
  /\ CanTamper
  /\ \E k \in CountKeywords \cup DetailKeywords :
       LET i == FirstLine(file.lines, k)
       IN  /\ i > 0
           /\ file' = [file EXCEPT !.lines = InsertAt(@, i, @[i])]
           /\ Tampered("duplicate", k, "-")

\* lines with a keyword this version does not know, with and without value
UnknownWithValue == {<<"X","-","F","u","t","u","r","e"," ","1">>}

UnknownWithoutValue == {<<"X","-","F","u","t","u","r","e">>}

\* lines with a known keyword: a finishings entry, a preset outside the table
KnownLines ==
  { <<"F","i","n","i","s","h","i","n","g","s"," ","4"," ","S","t","a","p","l","e","L","o","c","a","t","i","o","n","=","S","i","n","g","l","e","P","o","r","t","r","a","i","t">>, <<"P","r","e","s","e","t"," ","7"," ","0"," ","a","=","b">>,
    <<"F","i","n","i","s","h","i","n","g","T","e","m","p","l","a","t","e"," ","s","t","a","p","l","e">> }

\* a line is added at the start of the directives, or before the IPP
\* directive (at the end of the directives when there is none)
InsertLine ==
  /\ CanTamper
  /\ \E l \in UnknownWithValue \cup UnknownWithoutValue \cup KnownLines,
        pos \in {"start", "end"} :
       LET ipp == FirstLine(file.lines, <<"I","P","P">>)
           i   == IF pos = "start" THEN 0
                  ELSE IF ipp > 0 THEN ipp - 1 ELSE Len(file.lines)
       IN  /\ file' = [file EXCEPT !.lines = InsertAt(@, i, l)]
           /\ Tampered("insert", l, pos)

\* a line is added after the attribute blob
AppendLine ==
  /\ CanTamper
  /\ FirstLine(file.lines, <<"I","P","P">>) > 0
  /\ \E l \in UnknownWithValue \cup UnknownWithoutValue :
       /\ file' = [file EXCEPT !.tail = @ \o l \o <<LF>>]
       /\ Tampered("insert", l, "after")

\* copy limits another writer may store
CopyLimits == {<<"0">>, <<"-","1">>, <<"2">>}

\* the MaxCopies directive gets another value
SetMaxCopies ==
  /\ CanTamper
  /\ FirstLine(file.lines, <<"M","a","x","C","o","p","i","e","s">>) > 0
  /\ \E v \in CopyLimits :
       /\ file' = [file EXCEPT !.lines[FirstLine(file.lines, <<"M","a","x","C","o","p","i","e","s">>)] =
                                  FormatLine(<<"M","a","x","C","o","p","i","e","s">>, <<v>>)]
       /\ Tampered("max-copies", v, "-")

Next ==
  \/ CreateWithPPD
  \/ WriteFile
  \/ CreateWithFile
  \/ Destroy
  \/ SetVersion
  \/ SetHeader
  \/ Truncate
  \/ SetIppLength
  \/ DeleteLine
  \/ DuplicateLine
  \/ InsertLine
  \/ AppendLine
  \/ SetMaxCopies

Spec == Init /\ [][Next]_vars

(***************************************************************************)
(* The builder on its own: ppdCacheCreateWithPPD applied to device          *)
(* descriptions that differ in their page sizes.                           *)
(***************************************************************************)
\* a length of u units of 1/2540 inch, as the device description holds it
Units(u) == 18 * u

\* a page size of w x l units whose four margins are m units wide
PageSize(name, w, l, m) ==
  [name |-> name, width |-> Units(w), length |-> Units(l),
   left |-> Units(m), bottom |-> Units(m),
   right |-> Units(w - m), top |-> Units(l - m)]

\* a description that has page sizes only
SizesOnly(sizes) ==
  [ sizes |-> sizes, options |-> <<>>, attrs |-> <<>>,
    filters |-> <<>>, product |-> NullStr,
    variable_sizes |-> FALSE, custom_min |-> NoCustom, custom_max |-> NoCustom,
    custom_margins |-> NoMargins, manual_copies |-> FALSE,
    color_device |-> FALSE, nickname |-> NullStr, hw_resolution |-> <<100, 100>> ]

\* by how much the sizes of a description differ in one dimension
SizeDeltas == {0, 49, 50}

\* margins of the page sizes: borderless, narrow, wide
SizeMargins == {0, 500, 1000}

\* page sizes around 15000 x 20000 units, none near a standard size
PhotoSizes ==
  { PageSize(<<"P">> \o FormatInt(dw) \o <<"x">> \o FormatInt(dl) \o <<"m">> \o FormatInt(m),
             15000 + dw, 20000 + dl, m) :
      dw \in SizeDeltas, dl \in SizeDeltas, m \in SizeMargins }

\* the base size of the photo sizes with each of the margins
PhotoBases == {z \in PhotoSizes : z.width = Units(15000) /\ z.length = Units(20000)}

\* the "Custom" placeholder of a description with variable sizes, and a page
\* size without dimensions
CustomPlaceholder == PageSize(<<"C","u","s","t","o","m">>, 15000, 20000, 500)

EmptySize == PageSize(<<"E","m","p","t","y">>, 0, 0, 0)

\* descriptions with two photo sizes of which one is a base size, and with
\* a third size after a base size and the placeholder or the empty size
SizeDevices ==
  { SizesOnly(<<a, b>>) : a \in PhotoBases, b \in PhotoSizes }
  \cup { SizesOnly(<<b, a>>) : a \in PhotoBases, b \in PhotoSizes }
  \cup { SizesOnly(<<a, x, b>>) :
            a \in PhotoBases, x \in {CustomPlaceholder, EmptySize},
            b \in {z \in PhotoSizes : z.left = Units(500)} }

\* margins of the page sizes that have a standard size
PairMargins == {500, 1000}

\* descriptions with two page sizes that resolve to the same standard size
\* (letter; photo-l, whose standard name starts with "oe_"), and with two
\* that resolve to two standard sizes less than 50 units apart (jis_exec
\* and foolscap, in both orders)
StandardDevices ==
  { SizesOnly(<<PageSize(<<"L","e","t","t","e","r">>, 21590, 27940, m1),
                PageSize(<<"L","e","t","t","e","r","A","l","t">>, 21590, 27940, m2)>>) :
      m1 \in PairMargins, m2 \in PairMargins }
  \cup { SizesOnly(<<PageSize(<<"P","h","o","t","o","L">>, 8890, 12700, m1),
                     PageSize(<<"C","a","r","d">>, 8890, 12700, m2)>>) :
           m1 \in PairMargins, m2 \in PairMargins }
  \cup { SizesOnly(<<PageSize(<<"E","x","e","c">>, 21600, 33000, m1),
                     PageSize(<<"F","o","o","l","s","c","a","p">>, 21590, 33020, m2)>>) :
           m1 \in PairMargins, m2 \in PairMargins }
  \cup { SizesOnly(<<PageSize(<<"F","o","o","l","s","c","a","p">>, 21590, 33020, m1),
                     PageSize(<<"E","x","e","c">>, 21600, 33000, m2)>>) :
           m1 \in PairMargins, m2 \in PairMargins }

\* the size table after each page size of the description
SizeSteps(ppd) ==
  [i \in 1..Len(ppd.sizes) |-> BuildSizes(SubSeq(ppd.sizes, 1, i), 1, <<>>)]

\* pc = ppdCacheCreateWithPPD(ppd) for one of the descriptions
BuildDevice(devices) ==
  /\ phase = "idle"
  /\ \E ppd \in devices :
     \E r \in {ppdCacheCreateWithPPD(ppd, "none")} :
           /\ pc' = r.cache
           /\ ppd_cache_status_message' =
                set_error(catalog, ppd_cache_status_message, r.err)
           /\ last' = [op |-> "build", ok |-> (r.cache # NullCache), err |-> r.err,
                       ppd |-> ppd, steps |-> SizeSteps(ppd)]
  /\ phase' = "built"
  /\ UNCHANGED <<catalog, file, temp, written, tamper, held, raster_buf, errors>>

\* descriptions whose single option is ColorModel with the choices Gray and
\* RGB, in both orders and with either default, of color and of monochrome
\* devices, the option in a general group or among the installable options
ColorModelDevices ==
  { [MinimalPPD EXCEPT
       !.color_device = color,
       !.options = << [keyword |-> "ColorModel", name |-> <<"C","o","l","o","r","M","o","d","e","l">>,
                       choices |-> choices, group |-> group,
                       defchoice |-> def] >>] :
      color \in BOOLEAN,
      choices \in {<<<<"G","r","a","y">>, <<"R","G","B">>>>, <<<<"R","G","B">>, <<"G","r","a","y">>>>},
      def \in {<<"G","r","a","y">>, <<"R","G","B">>},
      group \in {<<"G","e","n","e","r","a","l">>, <<"I","n","s","t","a","l","l","a","b","l","e","O","p","t","i","o","n","s">>} }

\* MediaType choice names: matched by the three "auto" rows, by a prefix row,
\* by no row, and one whose generic transform is a standard name
TypeNames ==
  { <<"A","u","t","o">>, <<"A","n","y">>, <<"D","e","f","a","u","l","t">>, <<"A","u","t","o","S","e","l","e","c","t">>, <<"P","l","a","i","n">>, <<"P","l","a","i","n","H","e","a","v","y">>,
    <<"S","t","a","t","i","o","n","e","r","y">>, <<"E","n","v","e","l","o","p","e">>, <<"B","o","n","d">> }

\* descriptions whose single option is MediaType with one or two choices
TypeDevices ==
  { [MinimalPPD EXCEPT
       !.options = << [keyword |-> "MediaType", name |-> <<"M","e","d","i","a","T","y","p","e">>,
                       choices |-> choices, group |-> <<"G","e","n","e","r","a","l">>,
                       defchoice |-> choices[1]] >>] :
      choices \in { <<a>> : a \in TypeNames }
                    \cup { p \in TypeNames \X TypeNames : p[1] # p[2] } }

\* APPrinterPreset values: color at normal quality; monochrome at high
\* quality; without a quality; for photos at low quality; for coated media
\* at low quality; for photos at high quality
PresetValues ==
  { <<"c","o","m",".","a","p","p","l","e",".","p","r","i","n","t",".","p","r","e","s","e","t",".","q","u","a","l","i","t","y"," ","m","i","d"," ","*","C","o","l","o","r","M","o","d","e","l"," ","R","G","B">>,
    <<"c","o","m",".","a","p","p","l","e",".","p","r","i","n","t",".","p","r","e","s","e","t",".","q","u","a","l","i","t","y"," ","h","i","g","h"," ","c","o","m",".","a","p","p","l","e",".","p","r","i","n","t",".","p","r","e","s","e","t",".","o","u","t","p","u","t","-","m","o","d","e"," ","m","o","n","o","c","h","r","o","m","e"," ","*","C","o","l","o","r","M","o","d","e","l"," ","G","r","a","y">>,
    <<"*","C","o","l","o","r","M","o","d","e","l"," ","R","G","B">>,
    <<"c","o","m",".","a","p","p","l","e",".","p","r","i","n","t",".","p","r","e","s","e","t",".","q","u","a","l","i","t","y"," ","l","o","w"," ","c","o","m",".","a","p","p","l","e",".","p","r","i","n","t",".","p","r","e","s","e","t",".","g","r","a","p","h","i","c","s","T","y","p","e"," ","P","h","o","t","o"," ","*","C","o","l","o","r","M","o","d","e","l"," ","R","G","B">>,
    <<"c","o","m",".","a","p","p","l","e",".","p","r","i","n","t",".","p","r","e","s","e","t",".","q","u","a","l","i","t","y"," ","l","o","w"," ","c","o","m",".","a","p","p","l","e",".","p","r","i","n","t",".","p","r","e","s","e","t",".","m","e","d","i","a","-","f","r","o","n","t","-","c","o","a","t","i","n","g"," ","g","l","o","s","s","y"," ","*","C","o","l","o","r","M","o","d","e","l"," ","R","G","B">>,
    <<"c","o","m",".","a","p","p","l","e",".","p","r","i","n","t",".","p","r","e","s","e","t",".","q","u","a","l","i","t","y"," ","h","i","g","h"," ","c","o","m",".","a","p","p","l","e",".","p","r","i","n","t",".","p","r","e","s","e","t",".","g","r","a","p","h","i","c","s","T","y","p","e"," ","P","h","o","t","o"," ","*","C","o","l","o","r","M","o","d","e","l"," ","R","G","B">> }

APPrinterPreset(value) == [name |-> "APPrinterPreset", spec |-> <<"P","r","e","s","e","t">>, value |-> value]

\* descriptions with the option ColorModel and one or two presets
PresetDevices ==
  { [MinimalPPD EXCEPT
       !.color_device = color,
       !.options = << [keyword |-> "ColorModel", name |-> <<"C","o","l","o","r","M","o","d","e","l">>,
                       choices |-> <<<<"G","r","a","y">>, <<"R","G","B">>>>, group |-> <<"G","e","n","e","r","a","l">>,
                       defchoice |-> <<"R","G","B">>] >>,
       !.attrs = attrs] :
      color \in BOOLEAN,
      attrs \in { <<APPrinterPreset(a)>> : a \in PresetValues }
                  \cup { <<APPrinterPreset(p[1]), APPrinterPreset(p[2])>> :
                           p \in {x \in PresetValues \X PresetValues : x[1] # x[2]} } }

\* descriptions with a single option that sets the color mode or the print
\* quality, some of whose cells no choice serves, the declared default
\* being one of the choices or naming none of them
GridDevices ==
  { [MinimalPPD EXCEPT
       !.color_device = color,
       !.options = << [keyword |-> "ColorModel", name |-> <<"C","o","l","o","r","M","o","d","e","l">>,
                       choices |-> choices, group |-> <<"G","e","n","e","r","a","l">>,
                       defchoice |-> def] >>] :
      color \in BOOLEAN,
      choices \in {<<<<"G","r","a","y">>>>, <<<<"R","G","B">>>>, <<<<"G","r","a","y">>, <<"R","G","B">>>>},
      def \in {<<"G","r","a","y">>, <<"R","G","B">>, <<"C","M","Y","K">>} }
  \cup
  { [MinimalPPD EXCEPT
       !.color_device = color,
       !.options = << [keyword |-> "PrintQuality", name |-> <<"P","r","i","n","t","Q","u","a","l","i","t","y">>,
                       choices |-> choices, group |-> <<"G","e","n","e","r","a","l">>,
                       defchoice |-> def] >>] :
      color \in BOOLEAN,
      choices \in {<<<<"D","r","a","f","t">>>>, <<<<"H","i","g","h">>>>, <<<<"D","r","a","f","t">>, <<"H","i","g","h">>>>,
                   <<<<"D","r","a","f","t">>, <<"N","o","r","m","a","l">>, <<"H","i","g","h">>>>, <<<<"H","i","g","h">>, <<"B","e","s","t">>>>},
      def \in {<<"D","r","a","f","t">>, <<"N","o","r","m","a","l">>, <<"H","i","g","h">>, <<"A","u","t","o">>} }

\* the composite option PrintoutMode and an option Quality whose first
\* choice hands it to PrintoutMode
PrintoutMode(choices) ==
  [keyword |-> "PrintoutMode", name |-> <<"P","r","i","n","t","o","u","t","M","o","d","e">>, choices |-> choices,
   group |-> <<"G","e","n","e","r","a","l">>, defchoice |-> choices[1]]

QualityMember ==
  [keyword |-> "Quality", name |-> <<"Q","u","a","l","i","t","y">>,
   choices |-> <<<<"F","r","o","m","P","r","i","n","t","o","u","t","M","o","d","e">>, <<"D","r","a","f","t">>, <<"H","i","g","h">>>>,
   group |-> <<"G","e","n","e","r","a","l">>, defchoice |-> <<"F","r","o","m","P","r","i","n","t","o","u","t","M","o","d","e">>]

\* descriptions with the two options in either order, of Foomatic and of
\* another origin
CompositeDevices ==
  { [MinimalPPD EXCEPT
       !.color_device = color,
       !.nickname = nickname,
       !.options = IF first THEN <<PrintoutMode(choices), QualityMember>>
                            ELSE <<QualityMember, PrintoutMode(choices)>>] :
      color \in BOOLEAN,
      nickname \in {<<"F","o","o","m","a","t","i","c","/","l","j","e","t","4">>, <<"G","e","n","e","r","i","c">>},
      first \in BOOLEAN,
      choices \in {<<<<"N","o","r","m","a","l">>, <<"D","r","a","f","t">>, <<"H","i","g","h">>>>,
                   <<<<"N","o","r","m","a","l">>, <<"N","o","r","m","a","l",".","G","r","a","y">>, <<"P","h","o","t","o">>>>,
                   <<<<"N","o","r","m","a","l">>, <<"S","t","a","n","d","a","r","d">>>>} }

BuildNext ==
  BuildDevice(SizeDevices \cup StandardDevices \cup ColorModelDevices \cup TypeDevices
              \cup PresetDevices \cup GridDevices \cup CompositeDevices)

BuildSpec == Init /\ [][BuildNext]_vars

(***************************************************************************)
(* The query functions                                                     *)
(***************************************************************************)
\* _ppdStrScand(buf, &ptr, loc) on a number written with digits only: the
\* value of the run of digits and what follows it
ppdStrScand(buf) ==
  [val |-> AtoiDigits(buf, 1, 0), rest |-> Drop(buf, DigitRun(buf, 1) - 1)]

\* (float)n for a whole number n below 2^25: a float has 24 bits of
\* mantissa, an odd n above 2^24 goes to the neighbour with an even mantissa
Float(n) ==
  IF n <= 16777216 THEN n
  ELSE IF n % 2 = 0 THEN n
  ELSE IF (n \div 2) % 2 = 0 THEN n - 1 ELSE n + 1

\* unit suffixes compared letter by letter
UnitFactorExactCase(unit) ==
  IF unit = <<"i","n">> THEN [num |-> 2540, den |-> 1]
  ELSE IF unit = <<"f","t">> THEN [num |-> 12 * 2540, den |-> 1]
  ELSE IF unit = <<"m","m">> THEN [num |-> 100, den |-> 1]
  ELSE IF unit = <<"c","m">> THEN [num |-> 1000, den |-> 1]
  ELSE IF unit = <<"m">> THEN [num |-> 100000, den |-> 1]
  ELSE [num |-> 2540, den |-> 72]

\* the factor of a unit suffix, as a fraction of units of 1/2540 inch
UnitFactor(unit) ==
  IF ppd_strcasecmp(unit, <<"i","n">>) THEN [num |-> 2540, den |-> 1]
  ELSE IF ppd_strcasecmp(unit, <<"f","t">>) THEN [num |-> 12 * 2540, den |-> 1]
  ELSE IF ppd_strcasecmp(unit, <<"m","m">>) THEN [num |-> 100, den |-> 1]
  ELSE IF ppd_strcasecmp(unit, <<"c","m">>) THEN [num |-> 1000, den |-> 1]
  ELSE IF ppd_strcasecmp(unit, <<"m">>) THEN [num |-> 100000, den |-> 1]
  ELSE [num |-> 2540, den |-> 72]

\* pwgMediaForPPD, pwgMediaForLegacy and pwgMediaForPWG of libcups on a name
\* that does not spell out dimensions: the standard size of that name
MediaNamed(field, name) ==
  IF \E i \in 1..Len(StandardMedia) : StandardMedia[i][field] = name
    THEN StandardMedia[CHOOSE i \in 1..Len(StandardMedia) : StandardMedia[i][field] = name]
    ELSE NullMedia

pwgMediaForName(page_size) ==
  IF MediaNamed("ppd", page_size) # NullMedia THEN MediaNamed("ppd", page_size)
  ELSE IF MediaNamed("legacy", page_size) # NullMedia THEN MediaNamed("legacy", page_size)
  ELSE MediaNamed("pwg", page_size)

\* the size is kept in the custom bounds of the cache, not in the scratch
\* record
CustomSizedInBounds(c, page_size, w, l) ==
  [ret |-> CustomSizePtr,
   pc  |-> [c EXCEPT !.custom_max_width = w, !.custom_max_length = l]]

\* the scratch record is filled in once: a later size leaves it as it is
CustomSizedOnce(c, page_size, w, l) ==
  [ret |-> CustomSizePtr,
   pc  |-> IF c.custom_size.ppd # NullStr THEN c
           ELSE [c EXCEPT !.custom_size =
                   [@ EXCEPT !.ppd = page_size, !.width = w, !.length = l]]]

\* the scratch record filled in for a size of w x l units
CustomSized(c, page_size, w, l) ==
  [ret |-> CustomSizePtr,
   pc  |-> [c EXCEPT !.custom_size =
              [@ EXCEPT !.ppd = page_size, !.width = w, !.length = l,
                        !.pwg = IF pwgMediaForSize(w, l) # NullMedia
                                  THEN pwgMediaForSize(w, l).pwg ELSE @]]]

\* the "Custom.WIDTHxLENGTH[units]" branch: w and l are the two scans
CustomScanned(c, page_size, w, l) ==
  IF At(w.rest, 1) # "x" THEN [ret |-> NullSizePtr, pc |-> c]
  ELSE CustomSized(c, page_size,
                   (Float(w.val) * UnitFactor(l.rest).num) \div UnitFactor(l.rest).den,
                   (Float(l.val) * UnitFactor(l.rest).num) \div UnitFactor(l.rest).den)

\* the first entry of the size table with the device or PWG name, 0 if none
SizeNamed(sizes, page_size) ==
  LET hits == {i \in 1..Len(sizes) : ppd_strcasecmp(page_size, sizes[i].ppd) \/
                                     ppd_strcasecmp(page_size, sizes[i].pwg)}
  IN  IF hits = {} THEN 0 ELSE CHOOSE i \in hits : \A j \in hits : i <= j

\* ppdCacheGetSize2(pc, page_size, ppd_size): the pointer returned and the
\* cache afterwards; ppd_size is a device page size or NullMedia for NULL
ppdCacheGetSize2(c, page_size, ppd_size) ==
  IF c = NullCache \/ page_size = NullStr THEN [ret |-> NullSizePtr, pc |-> c]
  ELSE IF ppd_strcasecmp(page_size, <<"C","u","s","t","o","m">>) \/ ppd_strncasecmp(page_size, <<"C","u","s","t","o","m",".">>, 7)
    THEN IF Len(page_size) > 6
           THEN CustomScanned(c, page_size, ppdStrScand(Drop(page_size, 7)),
                              ppdStrScand(Drop(ppdStrScand(Drop(page_size, 7)).rest, 1)))
         ELSE IF ppd_size # NullMedia
           THEN CustomSized(c, page_size, (4 * ppd_size.width) \div 72,
                            (4 * ppd_size.length) \div 72)
         ELSE [ret |-> NullSizePtr, pc |-> c]
  ELSE IF SizeNamed(c.sizes, page_size) > 0
    THEN [ret |-> TablePtr(SizeNamed(c.sizes, page_size)), pc |-> c]
  ELSE IF pwgMediaForName(page_size) # NullMedia
    THEN [ret |-> CustomSizePtr,
          pc  |-> [c EXCEPT !.custom_size =
                     [@ EXCEPT !.ppd = page_size,
                               !.pwg = pwgMediaForName(page_size).pwg,
                               !.width = pwgMediaForName(page_size).width,
                               !.length = pwgMediaForName(page_size).length]]]
  ELSE [ret |-> NullSizePtr, pc |-> c]

\* a print job as the queries read it: the value of its PageSize, PageRegion
\* or media attribute, the media-source and media-type of its media-col
\* (NullStr: not there), and what pwgInitSize makes of it
NullJob == [null |-> TRUE]

\* _ppd_strcasecmp replaced by strcmp in the lookup of a media type
ppdCacheGetTypeExactCase(c, media_type) ==
  IF c = NullCache \/ media_type = NullStr THEN NullStr
  ELSE IF \E i \in 1..Len(c.types) : media_type \in {c.types[i].ppd, c.types[i].pwg}
    THEN c.types[CHOOSE i \in 1..Len(c.types) :
                   /\ media_type \in {c.types[i].ppd, c.types[i].pwg}
                   /\ \A j \in 1..(i - 1) :
                         media_type \notin {c.types[j].ppd, c.types[j].pwg}].pwg
  ELSE NullStr

\* ppdCacheGetType(pc, media_type): the PWG media-type of a MediaType choice
ppdCacheGetType(c, media_type) ==
  IF c = NullCache \/ media_type = NullStr THEN NullStr
  ELSE IF SizeNamed(c.types, media_type) > 0
    THEN c.types[SizeNamed(c.types, media_type)].pwg
  ELSE NullStr

\* ppdCacheGetSource(pc, input_slot): the PWG media-source of an InputSlot
ppdCacheGetSource(c, input_slot) ==
  IF c = NullCache \/ input_slot = NullStr THEN NullStr
  ELSE IF SizeNamed(c.sources, input_slot) > 0
    THEN c.sources[SizeNamed(c.sources, input_slot)].pwg
  ELSE NullStr

\* ppdCacheGetBin(pc, output_bin): the PWG output-bin of an OutputBin
ppdCacheGetBin(c, output_bin) ==
  IF c = NullCache \/ output_bin = NullStr THEN NullStr
  ELSE IF SizeNamed(c.bins, output_bin) > 0
    THEN c.bins[SizeNamed(c.bins, output_bin)].pwg
  ELSE NullStr

\* the first entry of a map with the PWG keyword, 0 if none
PwgNamed(map, keyword) ==
  IF \E i \in 1..Len(map) : ppd_strcasecmp(keyword, map[i].pwg)
    THEN CHOOSE i \in 1..Len(map) :
           /\ ppd_strcasecmp(keyword, map[i].pwg)
           /\ \A j \in 1..(i - 1) : ~ppd_strcasecmp(keyword, map[j].pwg)
    ELSE 0

\* ppdCacheGetOutputBin(pc, output_bin): the OutputBin of a PWG output-bin
ppdCacheGetOutputBin(c, output_bin) ==
  IF c = NullCache \/ output_bin = NullStr THEN NullStr
  ELSE IF PwgNamed(c.bins, output_bin) > 0
    THEN c.bins[PwgNamed(c.bins, output_bin)].ppd
  ELSE NullStr

\* ppd_inputslot_for_keyword(pc, keyword)
ppd_inputslot_for_keyword(c, keyword) ==
  IF keyword = NullStr THEN NullStr
  ELSE IF PwgNamed(c.sources, keyword) > 0
    THEN c.sources[PwgNamed(c.sources, keyword)].ppd
  ELSE NullStr

\* the keyword ppdCacheGetInputSlot takes from a job: its media-source, or
\* "photo" for media up to 5x7 inches when there is no automatic tray
JobInputSlot(c, job) ==
  IF job.media_source # NullStr THEN ppd_inputslot_for_keyword(c, job.media_source)
  ELSE IF job.sized /\ job.size.width <= 5 * 2540 /\ job.size.length <= 7 * 2540
    THEN (IF ppd_inputslot_for_keyword(c, <<"a","u","t","o">>) # NullStr
            THEN ppd_inputslot_for_keyword(c, <<"a","u","t","o">>)
            ELSE ppd_inputslot_for_keyword(c, <<"p","h","o","t","o">>))
  ELSE NullStr

\* ppdCacheGetInputSlot(pc, job, keyword)
ppdCacheGetInputSlot(c, job, keyword) ==
  IF c = NullCache THEN NullStr
  ELSE IF Len(c.sources) = 0 \/ (job = NullJob /\ keyword = NullStr) THEN NullStr
  ELSE IF job # NullJob /\ keyword = NullStr THEN JobInputSlot(c, job)
  ELSE ppd_inputslot_for_keyword(c, keyword)

\* the keyword ppdCacheGetMediaType looks up
MediaTypeKeyword(job, keyword) ==
  IF job # NullJob /\ keyword = NullStr THEN job.media_type ELSE keyword

\* ppdCacheGetMediaType(pc, job, keyword)
ppdCacheGetMediaType(c, job, keyword) ==
  IF c = NullCache THEN NullStr
  ELSE IF Len(c.types) = 0 \/ (job = NullJob /\ keyword = NullStr) THEN NullStr
  ELSE IF MediaTypeKeyword(job, keyword) = NullStr THEN NullStr
  ELSE IF PwgNamed(c.types, MediaTypeKeyword(job, keyword)) > 0
    THEN c.types[PwgNamed(c.types, MediaTypeKeyword(job, keyword))].ppd
  ELSE NullStr

\* pwgMediaForPWG, then pwgMediaForLegacy, then pwgMediaForPPD, on a
\* keyword that does not spell out dimensions
pwgMediaForKeyword(keyword) ==
  IF MediaNamed("pwg", keyword) # NullMedia THEN MediaNamed("pwg", keyword)
  ELSE IF MediaNamed("legacy", keyword) # NullMedia THEN MediaNamed("legacy", keyword)
  ELSE MediaNamed("ppd", keyword)

\* (int)PWG_TO_POINTS(n)
PWG_TO_POINTS(n) == (n * 72) \div 2540

\* ppd_name: the page size name of the job if it has one, else the keyword
PageSizeName(job, keyword) ==
  IF job = NullJob THEN keyword
  ELSE IF job.name # NullStr THEN job.name
  ELSE keyword

\* dwidth and dlength are both inside the epsilon of 5 points
InsideEpsilon(size, jobsize) ==
  /\ size.width - jobsize.width > -176 /\ size.width - jobsize.width < 176
  /\ size.length - jobsize.length > -176 /\ size.length - jobsize.length < 176

\* variant is the size itself or "<size>.<something>"
IsVariant(size, variant) ==
  \/ variant.ppd = size.ppd
  \/ /\ Len(variant.ppd) > Len(size.ppd) + 1
     /\ SubSeq(variant.ppd, 1, Len(size.ppd)) = size.ppd
     /\ variant.ppd[Len(size.ppd) + 1] = "."

\* strchr(variant->map.ppd, '.')
HasDot(name) == \E k \in 1..Len(name) : name[k] = "."

\* a variant that is skipped: the other orientation, or a borderless variant
\* for a job with margins
SkippedVariant(size, variant, jobsize) ==
  \/ (size.length - size.width) * (variant.length - variant.width) < 0
  \/ /\ HasDot(variant.ppd)
     /\ variant.left = 0 /\ variant.right = 0 /\ variant.top = 0 /\ variant.bottom = 0
     /\ (jobsize.left # 0 \/ jobsize.right # 0 \/ jobsize.top # 0 \/ jobsize.bottom # 0)

\* the four margins are inside the epsilon of 1 point
MarginsInside(size, jobsize) ==
  /\ Abs(size.left - jobsize.left) < 35 /\ Abs(size.right - jobsize.right) < 35
  /\ Abs(size.top - jobsize.top) < 35 /\ Abs(size.bottom - jobsize.bottom) < 35

\* dmin of a variant whose margins are off
MarginDistance(variant, jobsize) ==
  Abs(variant.left - jobsize.left) + Abs(variant.right - jobsize.right)
    + Abs(variant.bottom - jobsize.bottom) + Abs(variant.top - jobsize.top)
    + (IF HasDot(variant.ppd) THEN 1 ELSE 0)

\* the search before the first size: nothing found, nothing close
NoMatch == [size |-> 0, closest |-> 0, dclosest |-> 999999999, dmin |-> 999999999]

\* dmin is set; the variant is the closest when it is below dclosest
Farther(st, j, dmin) ==
  [st EXCEPT !.dmin = dmin,
             !.closest = IF dmin < st.dclosest THEN j ELSE @,
             !.dclosest = IF dmin < @ THEN dmin ELSE @]

\* the loop over the variants of sizes[i], from entry j on
RECURSIVE VariantLoop(_, _, _, _, _)
VariantLoop(sizes, i, j, jobsize, st) ==
  IF j > Len(sizes) THEN st
  ELSE IF ~IsVariant(sizes[i], sizes[j]) \/ SkippedVariant(sizes[i], sizes[j], jobsize)
    THEN VariantLoop(sizes, i, j + 1, jobsize, st)
  ELSE IF ~MarginsInside(sizes[j], jobsize)
    THEN VariantLoop(sizes, i, j + 1, jobsize,
                     Farther(st, j, MarginDistance(sizes[j], jobsize)))
  ELSE [st EXCEPT !.dmin = 0, !.size = j]

\* a search that goes on to the last entry inside the epsilon
SizeLoopLast(sizes, i, jobsize, margins_set, st) ==
  IF \A k \in 1..Len(sizes) : ~InsideEpsilon(sizes[k], jobsize) THEN st
  ELSE [st EXCEPT !.size = CHOOSE k \in 1..Len(sizes) :
                              /\ InsideEpsilon(sizes[k], jobsize)
                              /\ \A j \in (k + 1)..Len(sizes) :
                                    ~InsideEpsilon(sizes[j], jobsize)]

\* the loop over the size table, from entry i on: the first entry inside
\* the epsilon ends it unless margins are set and no variant has them
RECURSIVE SizeLoop(_, _, _, _, _)
RECURSIVE AfterVariants(_, _, _, _)
SizeLoop(sizes, i, jobsize, margins_set, st) ==
  IF i > Len(sizes) THEN st
  ELSE IF ~InsideEpsilon(sizes[i], jobsize)
    THEN SizeLoop(sizes, i + 1, jobsize, margins_set, st)
  ELSE IF ~margins_set THEN [st EXCEPT !.size = i]
  ELSE AfterVariants(sizes, i, jobsize, VariantLoop(sizes, i, 1, jobsize, st))

AfterVariants(sizes, i, jobsize, st) ==
  IF st.dmin # 0 THEN SizeLoop(sizes, i + 1, jobsize, TRUE, st) ELSE st

\* the loop is entered unless the name starts with "Custom." and with
\* "custom_"
SearchedSizes(c, ppd_name, jobsize, margins_set) ==
  IF \/ ppd_name = NullStr
     \/ ~ppd_strncasecmp(ppd_name, <<"C","u","s","t","o","m",".">>, 7)
     \/ ~ppd_strncasecmp(ppd_name, <<"c","u","s","t","o","m","_">>, 7)
    THEN SizeLoop(c.sizes, 1, jobsize, margins_set, NoMatch)
    ELSE NoMatch

\* a page size name ppdCacheGetPageSize returns: the string, the table entry
\* it is the device name of (0: none), *exact, and the cache afterwards
PageSizeResult(ret, entry, exact, c) ==
  [ret |-> ret, entry |-> entry, exact |-> exact, pc |-> c]

\* the end of ppdCacheGetPageSize, st being the outcome of the search
PageSizeFound(c, jobsize, margins_set, st) ==
  IF st.size > 0 THEN PageSizeResult(c.sizes[st.size].ppd, st.size, 1, c)
  ELSE IF st.closest > 0 THEN PageSizeResult(c.sizes[st.closest].ppd, st.closest, 0, c)
  ELSE IF /\ jobsize.width >= c.custom_min_width /\ jobsize.width <= c.custom_max_width
          /\ jobsize.length >= c.custom_min_length /\ jobsize.length <= c.custom_max_length
    THEN PageSizeResult(
           <<"C","u","s","t","o","m",".">> \o FormatInt(PWG_TO_POINTS(jobsize.width)) \o <<"x">>
                      \o FormatInt(PWG_TO_POINTS(jobsize.length)),
           0,
           IF margins_set /\ ~MarginsInside(c.custom_size, jobsize) THEN 0 ELSE 1,
           [c EXCEPT !.custom_ppd_size =
              <<"C","u","s","t","o","m",".">> \o FormatInt(PWG_TO_POINTS(jobsize.width)) \o <<"x">>
                         \o FormatInt(PWG_TO_POINTS(jobsize.length))])
  ELSE PageSizeResult(NullStr, 0, 0, c)

\* the dimensions ppdCacheGetPageSize searches for a keyword
KeywordSize(keyword) ==
  [ZeroSize EXCEPT !.width = pwgMediaForKeyword(keyword).width,
                   !.length = pwgMediaForKeyword(keyword).length]

\* ppdCacheGetPageSize(pc, job, keyword, &exact), exact holding a value of
\* the caller before the call
ppdCacheGetPageSize(c, job, keyword, exact) ==
  IF c = NullCache THEN PageSizeResult(NullStr, 0, exact, c)
  ELSE IF job = NullJob /\ keyword = NullStr THEN PageSizeResult(NullStr, 0, exact, c)
  ELSE IF /\ PageSizeName(job, keyword) # NullStr
          /\ SizeNamed(c.sizes, PageSizeName(job, keyword)) > 0
    THEN PageSizeResult(c.sizes[SizeNamed(c.sizes, PageSizeName(job, keyword))].ppd,
                        SizeNamed(c.sizes, PageSizeName(job, keyword)), 1, c)
  ELSE IF job # NullJob /\ keyword = NullStr
    THEN (IF ~job.sized THEN PageSizeResult(NullStr, 0, 0, c)
          ELSE PageSizeFound(c, job.size, job.margins_set,
                 SearchedSizes(c, PageSizeName(job, keyword), job.size,
                               job.margins_set)))
  ELSE IF pwgMediaForKeyword(keyword) = NullMedia THEN PageSizeResult(NullStr, 0, 0, c)
  ELSE PageSizeFound(c, KeywordSize(keyword), FALSE,
         SearchedSizes(c, PageSizeName(job, keyword), KeywordSize(keyword), FALSE))

\* the record a size pointer of the cache points to
SizeAt(c, ptr) == IF ptr.at = "custom_size" THEN c.custom_size ELSE c.sizes[ptr.index]

\* the options of a finishings entry: "name=value" words as an option list
OptionPairs(text) ==
  LET words == Words(text)
  IN  [i \in 1..Len(words) |->
         LET eq == IndexOf("=", words[i])
         IN  [name  |-> IF eq = 0 THEN words[i] ELSE Take(words[i], eq - 1),
              value |-> IF eq = 0 THEN <<>> ELSE Drop(words[i], eq)]]

\* ppdFindMarkedChoice(ppd, name): the marked choice of the option of that
\* name, NullStr for none; marks[i] is the marked choice of option i
ppdFindMarkedChoice(ppd, marks, name) ==
  LET at == {i \in 1..Len(ppd.options) : ppd_strcasecmp(ppd.options[i].name, name)}
  IN  IF at = {} THEN NullStr ELSE marks[CHOOSE i \in at : \A j \in at : i <= j]

\* some option of the entry is marked with the entry's value
EntryMarkedSomewhere(ppd, marks, f) ==
  \E i \in 1..Len(OptionPairs(f.options)) :
     /\ ppdFindMarkedChoice(ppd, marks, OptionPairs(f.options)[i].name) # NullStr
     /\ ppd_strcasecmp(OptionPairs(f.options)[i].value,
                       ppdFindMarkedChoice(ppd, marks, OptionPairs(f.options)[i].name))

\* the inner loop of ppdCacheGetFinishingValues ends with i == 0
EntryMarked(ppd, marks, f) ==
  \A i \in 1..Len(OptionPairs(f.options)) :
     /\ ppdFindMarkedChoice(ppd, marks, OptionPairs(f.options)[i].name) # NullStr
     /\ ppd_strcasecmp(OptionPairs(f.options)[i].value,
                       ppdFindMarkedChoice(ppd, marks, OptionPairs(f.options)[i].name))

\* the loop over the finishings table, from entry i on
RECURSIVE FinishingLoop(_, _, _, _, _, _)
FinishingLoop(ppd, marks, c, max_values, i, values) ==
  IF i > Len(c.finishings) THEN values
  ELSE IF EntryMarked(ppd, marks, c.finishings[i])
    THEN (IF Len(values) + 1 >= max_values
            THEN Append(values, c.finishings[i].value)
            ELSE FinishingLoop(ppd, marks, c, max_values, i + 1,
                               Append(values, c.finishings[i].value)))
  ELSE FinishingLoop(ppd, marks, c, max_values, i + 1, values)

\* ppdCacheGetFinishingValues(ppd, pc, max_values, values): [num, values],
\* values being what the function has written to the caller's array
ppdCacheGetFinishingValues(ppd, marks, c, max_values, values) ==
  IF ppd = NullPPD \/ c = NullCache \/ max_values < 1 \/ values = "NULL"
    THEN [num |-> 0, values |-> <<>>]
  ELSE IF Len(c.finishings) = 0
    THEN [num |-> 0, values |-> <<>>]
  ELSE LET found == FinishingLoop(ppd, marks, c, max_values, 1, <<>>)
       IN  IF Len(found) = 0
             THEN [num |-> 1, values |-> <<IPP_FINISHINGS_NONE>>]
             ELSE [num |-> Len(found), values |-> found]

\* a search that ends at the last entry of the value
FindFinishingLast(c, value) ==
  IF \A i \in 1..Len(c.finishings) : c.finishings[i].value # value THEN 0
  ELSE CHOOSE i \in 1..Len(c.finishings) :
         /\ c.finishings[i].value = value
         /\ \A k \in 1..Len(c.finishings) : c.finishings[k].value = value => k <= i

\* cupsArrayFind(pc->finishings, &key): the first entry of the value, 0 for
\* none
FindFinishing(c, value) ==
  First({i \in 1..Len(c.finishings) : c.finishings[i].value = value})

\* the options of an entry are added to the job's, from pair k on
RECURSIVE AddOptions(_, _, _)
AddOptions(pairs, k, options) ==
  IF k > Len(pairs) THEN options
  ELSE AddOptions(pairs, k + 1, cupsAddOption(pairs[k].name, pairs[k].value, options))

\* the options of the entry of a finishings value, if there is one
ApplyFinishing(c, value, options) ==
  IF FindFinishing(c, value) = 0 THEN options
  ELSE AddOptions(OptionPairs(c.finishings[FindFinishing(c, value)].options), 1, options)

\* the loop over the values of the job's "finishings" attribute
RECURSIVE ApplyFinishings(_, _, _, _)
ApplyFinishings(c, values, i, options) ==
  IF i > Len(values) THEN options
  ELSE ApplyFinishings(c, values, i + 1, ApplyFinishing(c, values[i], options))

\* ppdCacheGetFinishingOptions(pc, job, value, num_options, &options): the
\* options afterwards; a job is NullJob or has the values of its
\* "finishings" attribute (has_finishings: the attribute is there); given:
\* the pointer to the options is not NULL
ppdCacheGetFinishingOptions(c, job, value, given, options) ==
  IF c = NullCache THEN options
  ELSE IF Len(c.finishings) = 0 \/ ~given THEN options
  ELSE IF job = NullJob
    THEN (IF value = IPP_FINISHINGS_NONE THEN options
          ELSE ApplyFinishing(c, value, options))
  ELSE IF job.has_finishings THEN ApplyFinishings(c, job.finishings, 1, options)
  ELSE IF value # IPP_FINISHINGS_NONE THEN ApplyFinishing(c, value, options)
  ELSE options

(***************************************************************************)
(* The queries of print jobs on a cache that has been built.  In the       *)
(* specification LookupSpec a job asks one question; in QuerySpec jobs ask  *)
(* one question after the other, from a smaller choice.                     *)
(***************************************************************************)
\* the descriptions whose caches are queried
QueryDevices == {OfficePPD, AutoPPD}

\* page size names with dimensions, as jobs give them
CustomNames ==
  { <<"C","u","s","t","o","m",".","4","x","6","i","n">>, <<"C","u","s","t","o","m",".","1","0","0","x","1","5","0","m","m">>, <<"c","u","s","t","o","m",".","4","x","6","I","N">>, <<"C","u","s","t","o","m",".","2","x","3","f","t">>,
    <<"C","u","s","t","o","m",".","1","0","x","1","5","c","m">>, <<"C","u","s","t","o","m",".","1","x","2","m">>, <<"C","u","s","t","o","m",".","1","x","2","M">>, <<"C","u","s","t","o","m",".","7","2","x","1","4","4">>,
    <<"C","u","s","t","o","m",".","1","0","0","x","1","5","0">>, <<"C","u","s","t","o","m",".","1","0","0","x","1","5","0","p","t">>, <<"C","u","s","t","o","m",".","0","x","0","i","n">>,
    <<"C","u","s","t","o","m",".","1","6","7","7","7","2","1","7","x","1","m","m">>, <<"C","u","s","t","o","m",".","4">>, <<"C","u","s","t","o","m",".","4","i","n">>, <<"C","u","s","t","o","m",".","4","-","6","i","n">>,
    <<"C","u","s","t","o","m",".","4","X","6","i","n">> }

\* names of page sizes: device names, PWG names, legacy names, in the
\* spelling of the tables and in others
TableNames ==
  { <<"L","e","t","t","e","r">>, <<"L","E","T","T","E","R">>, <<"a","4">>, <<"n","a","_","l","e","t","t","e","r","_","8",".","5","x","1","1","i","n">>, <<"N","A","_","L","E","T","T","E","R","_","8",".","5","X","1","1","I","N">>,
    <<"i","s","o","-","a","4">>, <<"4","x","6">>, <<"T","a","b","l","o","i","d">> }

\* the names whose size pointer a job holds on to
KeptNames == {<<"C","u","s","t","o","m",".","4","x","6","i","n">>, <<"C","u","s","t","o","m",".","1","0","0","x","1","5","0","m","m">>}

\* the page size names of jobs that ask one question after the other
FewNames == KeptNames \cup {<<"L","e","t","t","e","r">>, <<"i","s","o","-","a","4">>, <<"T","a","b","l","o","i","d">>}

\* the calls of a query leave everything but the cache and the callers alone
QueryFrame ==
  UNCHANGED <<catalog, file, temp, written, tamper, ppd_cache_status_message, raster_buf,
              errors>>

\* size = ppdCacheGetSize2(pc, page_size, ppd_size) for a name among names,
\* by a job that uses the result at once or, for a name among kept, holds
\* on to the pointer
GetSize2(names, kept, after) ==
  /\ phase = "built" /\ pc # NullCache
  /\ \E a \in Callers, page_size \in names, ppd_size \in {NullMedia, A4},
        keep \in BOOLEAN :
       /\ keep => page_size \in kept
       /\ ~keep => a = "job-1"
       /\ ppd_size # NullMedia => page_size = <<"C","u","s","t","o","m">>
       /\ \E r \in {ppdCacheGetSize2(pc, page_size, ppd_size)} :
             /\ pc' = r.pc
             /\ last' = [op |-> "GetSize2", ppd |-> last.ppd, page_size |-> page_size,
                         ppd_size |-> ppd_size, ret |-> r.ret,
                         size |-> IF r.ret = NullSizePtr THEN ZeroSize
                                  ELSE SizeAt(r.pc, r.ret)]
             /\ held' = IF keep THEN [held EXCEPT ![a] = [ptr |-> r.ret,
                                                          asked |-> page_size]]
                        ELSE held
  /\ phase' = after
  /\ QueryFrame

\* the finishing options of a device
FinishingOptions ==
  << [keyword |-> "StapleLocation", name |-> <<"S","t","a","p","l","e","L","o","c","a","t","i","o","n">>,
      choices |-> <<<<"N","o","n","e">>, <<"S","i","n","g","l","e","P","o","r","t","r","a","i","t">>, <<"U","p","p","e","r","L","e","f","t">>>>,
      group |-> <<"F","i","n","i","s","h","i","n","g">>, defchoice |-> <<"N","o","n","e">>],
     [keyword |-> "BindEdge", name |-> <<"B","i","n","d","E","d","g","e">>,
      choices |-> <<<<"N","o","n","e">>, <<"L","e","f","t">>>>,
      group |-> <<"F","i","n","i","s","h","i","n","g">>, defchoice |-> <<"N","o","n","e">>] >>

\* a description whose finishings are found by the common option names
StapleDevice == [MinimalPPD EXCEPT !.options = FinishingOptions]

\* that description, one that maps its finishings itself (one entry asks for
\* two options and spells a choice in lower case), one of which an entry
\* asks nothing, and one with two entries for the same value
FinishingDevices ==
  { StapleDevice,
    [MinimalPPD EXCEPT
       !.options = FinishingOptions,
       !.attrs = << [name |-> "cupsIPPFinishings", spec |-> <<"4">>,
                     value |-> <<"*","S","t","a","p","l","e","L","o","c","a","t","i","o","n"," ","S","i","n","g","l","e","P","o","r","t","r","a","i","t">>],
                    [name |-> "cupsIPPFinishings", spec |-> <<"7">>,
                     value |-> <<"*","S","t","a","p","l","e","L","o","c","a","t","i","o","n"," ","s","i","n","g","l","e","p","o","r","t","r","a","i","t"," ","*","B","i","n","d","E","d","g","e"," ","L","e","f","t">>] >>],
    [MinimalPPD EXCEPT
       !.options = FinishingOptions,
       !.attrs = << [name |-> "cupsIPPFinishings", spec |-> <<"5">>, value |-> <<>>],
                    [name |-> "cupsIPPFinishings", spec |-> <<"5","0">>,
                     value |-> <<"*","B","i","n","d","E","d","g","e"," ","L","e","f","t">>] >>],
    [MinimalPPD EXCEPT
       !.options = FinishingOptions,
       !.attrs = << [name |-> "cupsIPPFinishings", spec |-> <<"4">>,
                     value |-> <<"*","S","t","a","p","l","e","L","o","c","a","t","i","o","n"," ","S","i","n","g","l","e","P","o","r","t","r","a","i","t">>],
                    [name |-> "cupsIPPFinishings", spec |-> <<"4">>,
                     value |-> <<"*","B","i","n","d","E","d","g","e"," ","L","e","f","t">>] >>] }

\* the ways to mark the options of a description: each option with one of
\* its choices or with none
Marks(ppd) ==
  { marks \in [1..Len(ppd.options) ->
               UNION {{ppd.options[i].choices[k] : k \in 1..Len(ppd.options[i].choices)} :
                        i \in 1..Len(ppd.options)} \cup {NullStr}] :
      \A i \in 1..Len(ppd.options) :
         marks[i] = NullStr \/ ppdFindChoice(ppd.options[i], marks[i]) }

\* the sizes of the array a job passes for the finishings values
MaxValues == {0, 1, 2, 3}

\* num = ppdCacheGetFinishingValues(ppd, pc, max_values, values) for the
\* description the cache was built from, marked in some way
GetFinishingValues(after) ==
  /\ phase = "built"
  /\ pc # NullCache
  /\ last.ppd \in FinishingDevices \cup {MinimalPPD}
  /\ \E marks \in Marks(last.ppd), max_values \in MaxValues, values \in {"NULL", "array"} :
       \E r \in {ppdCacheGetFinishingValues(last.ppd, marks, pc, max_values, values)} :
          last' = [op |-> "GetFinishingValues", ppd |-> last.ppd, marks |-> marks,
                   max_values |-> max_values, values |-> values,
                   num |-> r.num, written |-> r.values]
  /\ phase' = after
  /\ UNCHANGED pc
  /\ UNCHANGED held
  /\ QueryFrame

\* jobs with and without a "finishings" attribute
FinishingJobs ==
  { NullJob,
    [has_finishings |-> FALSE, finishings |-> <<>>],
    [has_finishings |-> TRUE, finishings |-> <<20, 50>>],
    [has_finishings |-> TRUE, finishings |-> <<3>>] }

\* the finishings values jobs ask the options of
FinishingValues == {3, 4, 20, 50}

\* num_options = ppdCacheGetFinishingOptions(pc, job, value, num_options,
\* &options) for a job that has no option or one yet
GetFinishingOptions(after) ==
  /\ phase = "built"
  /\ \E job \in FinishingJobs, value \in FinishingValues, given \in BOOLEAN,
        options \in {<<>>, <<[name |-> <<"S","t","a","p","l","e","L","o","c","a","t","i","o","n">>, value |-> <<"N","o","n","e">>]>>} :
       last' = [op |-> "GetFinishingOptions", ppd |-> last.ppd, job |-> job,
                value |-> value, given |-> given, options |-> options,
                ret |-> ppdCacheGetFinishingOptions(pc, job, value, given, options)]
  /\ phase' = after
  /\ UNCHANGED pc
  /\ UNCHANGED held
  /\ QueryFrame

\* the other case of a letter
SwapCase(ch) ==
  IF ch \in UpperSet THEN LowerOf[ch]
  ELSE IF ch \in LowerSet
    THEN UpperChars[CHOOSE i \in 1..Len(LowerChars) : LowerChars[i] = ch]
  ELSE ch

Upper(s) == [i \in 1..Len(s) |-> IF s[i] \in LowerSet THEN SwapCase(s[i]) ELSE s[i]]

\* spellings of a keyword that differ in the case of letters: all letters in
\* lower case, all in upper case, and one letter in the other case
CaseVariants(keyword) ==
  {keyword, Lower(keyword), Upper(keyword)}
    \cup {[keyword EXCEPT ![i] = SwapCase(keyword[i])] : i \in 1..Len(keyword)}

\* the keywords jobs ask a mapping table for: the names of the table as they
\* are stored and in upper case, a name the table does not have, and NULL
MapKeywords(map) ==
  UNION {{map[i].ppd, map[i].pwg, Upper(map[i].ppd), Upper(map[i].pwg)} :
           i \in 1..Len(map)}
    \cup {<<"n","o","n","e","-","s","u","c","h">>, NullStr}

\* the size a job asks for, as pwgInitSize gives it
JobSize(w, l, m) ==
  [ZeroSize EXCEPT !.width = w, !.length = l,
                   !.left = m, !.bottom = m, !.right = m, !.top = m]

\* the jobs that ask: none, a job for a photo (4x6 inches), a job whose
\* media-col names the tray and the media type and gives the size A4 with
\* margins, and a job which names its page size
Jobs ==
  { NullJob,
    [name |-> NullStr, media_source |-> NullStr, media_type |-> NullStr,
     sized |-> TRUE, size |-> JobSize(10160, 15240, 0), margins_set |-> FALSE],
    [name |-> NullStr, media_source |-> <<"T","O","P">>, media_type |-> <<"S","t","a","t","i","o","n","e","r","y">>,
     sized |-> TRUE, size |-> JobSize(21000, 29700, 635), margins_set |-> TRUE],
    [name |-> <<"L","E","T","T","E","R">>, media_source |-> NullStr, media_type |-> NullStr,
     sized |-> FALSE, size |-> ZeroSize, margins_set |-> FALSE] }

\* a query by name leaves the cache and the callers' pointers alone
NameQuery(op, job, keyword, ret, after) ==
  /\ last' = [op |-> op, ppd |-> last.ppd, job |-> job, keyword |-> keyword,
              ret |-> ret]
  /\ phase' = after
  /\ UNCHANGED pc
  /\ UNCHANGED held
  /\ QueryFrame

\* keyword = ppdCacheGetBin(pc, output_bin)
GetBin(after) ==
  /\ phase = "built"
  /\ \E output_bin \in MapKeywords(pc.bins) :
        NameQuery("GetBin", NullJob, output_bin, ppdCacheGetBin(pc, output_bin),
                  after)

\* choice = ppdCacheGetOutputBin(pc, output_bin)
GetOutputBin(after) ==
  /\ phase = "built"
  /\ \E output_bin \in MapKeywords(pc.bins) :
        NameQuery("GetOutputBin", NullJob, output_bin,
                  ppdCacheGetOutputBin(pc, output_bin), after)

\* keyword = ppdCacheGetSource(pc, input_slot)
GetSource(after) ==
  /\ phase = "built"
  /\ \E input_slot \in MapKeywords(pc.sources) :
        NameQuery("GetSource", NullJob, input_slot, ppdCacheGetSource(pc, input_slot),
                  after)

\* keyword = ppdCacheGetType(pc, media_type)
GetType(after) ==
  /\ phase = "built"
  /\ \E media_type \in MapKeywords(pc.types) :
        NameQuery("GetType", NullJob, media_type, ppdCacheGetType(pc, media_type),
                  after)

\* choice = ppdCacheGetInputSlot(pc, job, keyword)
GetInputSlot(after) ==
  /\ phase = "built"
  /\ \E job \in Jobs, keyword \in MapKeywords(pc.sources) :
        NameQuery("GetInputSlot", job, keyword, ppdCacheGetInputSlot(pc, job, keyword),
                  after)

\* choice = ppdCacheGetMediaType(pc, job, keyword)
GetMediaType(after) ==
  /\ phase = "built"
  /\ \E job \in Jobs, keyword \in MapKeywords(pc.types) :
        NameQuery("GetMediaType", job, keyword, ppdCacheGetMediaType(pc, job, keyword),
                  after)

\* the loop of ppdPwgPpdizeName from position i of the keyword, out being
\* the name so far
RECURSIVE PpdizeLoop(_, _, _, _)
PpdizeLoop(ipp, i, namesize, out) ==
  IF i > Len(ipp) \/ Len(out) >= namesize - 1 THEN out
  ELSE IF ipp[i] = "-" /\ ppd_isalnum(At(ipp, i + 1))
    THEN PpdizeLoop(ipp, i + 2, namesize, out \o Upper(<<ipp[i + 1]>>))
  ELSE IF ipp[i] \in {"_", ".", "-"} \/ ppd_isalnum(ipp[i])
    THEN PpdizeLoop(ipp, i + 1, namesize, Append(out, ipp[i]))
  ELSE PpdizeLoop(ipp, i + 1, namesize, out)

\* ppdPwgPpdizeName(ipp, name, namesize): the name
ppdPwgPpdizeName(ipp, namesize) ==
  IF ipp = NullStr \/ ~ppd_isalnum(At(ipp, 1)) THEN <<>>
  ELSE PpdizeLoop(ipp, 2, namesize, Upper(<<ipp[1]>>))

\* ppdPwgInputSlotForSource(media_source, name, namesize): NullStr for NULL.
\* Each test is "if (_ppd_strcasecmp(media_source, ...))", true when the
\* two differ
ppdPwgInputSlotForSource(media_source, name, namesize) ==
  IF media_source = NullStr \/ name = "NULL" \/ namesize < PPD_MAX_NAME THEN NullStr
  ELSE IF ~ppd_strcasecmp(media_source, <<"m","a","i","n">>) THEN <<"C","a","s","s","e","t","t","e">>
  ELSE IF ~ppd_strcasecmp(media_source, <<"a","l","t","e","r","n","a","t","e">>) THEN <<"M","u","l","t","i","p","u","r","p","o","s","e">>
  ELSE IF ~ppd_strcasecmp(media_source, <<"l","a","r","g","e","-","c","a","p","a","c","i","t","y">>) THEN <<"L","a","r","g","e","C","a","p","a","c","i","t","y">>
  ELSE IF ~ppd_strcasecmp(media_source, <<"b","o","t","t","o","m">>) THEN <<"L","o","w","e","r">>
  ELSE IF ~ppd_strcasecmp(media_source, <<"m","i","d","d","l","e">>) THEN <<"M","i","d","d","l","e">>
  ELSE IF ~ppd_strcasecmp(media_source, <<"t","o","p">>) THEN <<"U","p","p","e","r">>
  ELSE IF ~ppd_strcasecmp(media_source, <<"r","e","a","r">>) THEN <<"R","e","a","r">>
  ELSE IF ~ppd_strcasecmp(media_source, <<"s","i","d","e">>) THEN <<"S","i","d","e">>
  ELSE IF ~ppd_strcasecmp(media_source, <<"e","n","v","e","l","o","p","e">>) THEN <<"E","n","v","e","l","o","p","e">>
  ELSE IF ~ppd_strcasecmp(media_source, <<"m","a","i","n","-","r","o","l","l">>) THEN <<"R","o","l","l">>
  ELSE IF ~ppd_strcasecmp(media_source, <<"a","l","t","e","r","n","a","t","e","-","r","o","l","l">>) THEN <<"R","o","l","l","2">>
  ELSE ppdPwgPpdizeName(media_source, namesize)

\* media-source keywords: those of the table, one of them in capitals, and
\* two the table does not have
SourceKeywords ==
  { <<"m","a","i","n">>, <<"a","l","t","e","r","n","a","t","e">>, <<"l","a","r","g","e","-","c","a","p","a","c","i","t","y">>, <<"b","o","t","t","o","m">>, <<"m","i","d","d","l","e">>, <<"t","o","p">>, <<"r","e","a","r">>,
    <<"s","i","d","e">>, <<"e","n","v","e","l","o","p","e">>, <<"m","a","i","n","-","r","o","l","l">>, <<"a","l","t","e","r","n","a","t","e","-","r","o","l","l">>, <<"M","A","I","N">>, <<"p","h","o","t","o">>,
    <<"b","y","-","p","a","s","s","-","t","r","a","y">> }

\* name = ppdPwgInputSlotForSource(media_source, name, namesize) for one of
\* the keywords or a keyword of the cache, or NULL
InputSlotForSource(after) ==
  /\ phase = "built"
  /\ \E media_source \in SourceKeywords \cup {NullStr}
                         \cup {pc.sources[i].pwg : i \in 1..Len(pc.sources)},
        name \in {"NULL", "buffer"}, namesize \in {PPD_MAX_NAME - 1, PPD_MAX_NAME} :
       last' = [op |-> "InputSlotForSource", ppd |-> last.ppd,
                media_source |-> media_source, name |-> name, namesize |-> namesize,
                ret |-> ppdPwgInputSlotForSource(media_source, name, namesize)]
  /\ phase' = after
  /\ UNCHANGED pc
  /\ UNCHANGED held
  /\ QueryFrame

\* names of standard sizes and a name that is none
StandardNames ==
  { <<"i","s","o","-","a","4">>, <<"A","4">>, <<"n","a","_","l","e","t","t","e","r","_","8",".","5","x","1","1","i","n">>, <<"F","a","n","F","o","l","d","G","e","r","m","a","n","L","e","g","a","l">>, <<"2","1","6","x","3","3","0","m","m">>,
    <<"4","x","6">>, <<"T","a","b","l","o","i","d">> }

\* name = ppdCacheGetPageSize(pc, job, keyword, &exact)
GetPageSize(after) ==
  /\ phase = "built"
  /\ \E job \in Jobs, keyword \in MapKeywords(pc.sizes) \cup StandardNames,
        exact \in {0, 1} :
       \E r \in {ppdCacheGetPageSize(pc, job, keyword, exact)} :
          /\ pc' = r.pc
          /\ last' = [op |-> "GetPageSize", ppd |-> last.ppd, job |-> job,
                      keyword |-> keyword, ret |-> r.ret, entry |-> r.entry,
                      exact |-> r.exact]
  /\ phase' = after
  /\ UNCHANGED held
  /\ QueryFrame

\* descriptions with two page sizes less than 176 units apart, one of them
\* without margins, in both orders
NearDevices ==
  { SizesOnly(<<PageSize(<<"E","x","e","c">>, 21600, 33000, 500),
                PageSize(<<"F","o","o","l","s","c","a","p">>, 21590, 33020, 0)>>),
    SizesOnly(<<PageSize(<<"F","o","o","l","s","c","a","p">>, 21590, 33020, 0),
                PageSize(<<"E","x","e","c">>, 21600, 33000, 500)>>) }

LookupNext ==
  \/ BuildDevice(PPDs \cup FinishingDevices \cup NearDevices)
  \/ GetSize2(CustomNames \cup TableNames \cup {<<"C","u","s","t","o","m">>}, {}, "asked")
  \/ GetFinishingValues("asked")
  \/ GetBin("asked")
  \/ GetOutputBin("asked")
  \/ GetSource("asked")
  \/ GetType("asked")
  \/ GetInputSlot("asked")
  \/ GetMediaType("asked")
  \/ GetPageSize("asked")
  \/ GetFinishingOptions("asked")
  \/ InputSlotForSource("asked")

LookupSpec == Init /\ [][LookupNext]_vars

QueryNext ==
  \/ BuildDevice(QueryDevices)
  \/ GetSize2(FewNames, KeptNames, "built")

QuerySpec == Init /\ [][QueryNext]_vars

\* the descriptions of the queues whose jobs ask any question, one after
\* the other
SessionDevices == {OfficePPD, StapleDevice}

SessionNext ==
  \/ BuildDevice(SessionDevices)
  \/ GetSize2(FewNames, {}, "built")
  \/ GetFinishingValues("built")
  \/ GetFinishingOptions("built")
  \/ GetBin("built")
  \/ GetOutputBin("built")
  \/ GetSource("built")
  \/ GetType("built")
  \/ GetInputSlot("built")
  \/ GetMediaType("built")
  \/ GetPageSize("built")

SessionSpec == Init /\ [][SessionNext]_vars

(***************************************************************************)
(* Properties                                                              *)
(***************************************************************************)
\* the most recent call is a load under a given file name during which no
\* system call and no allocation failed
PlainRead == last.op = "read" /\ last.named /\ last.env = "ok"

\* the four tables of two caches agree entry by entry
SameTables(a, b) ==
  \A t \in {"bins", "sizes", "sources", "types"} :
    /\ Len(a[t]) = Len(b[t])
    /\ \A i \in 1..Len(a[t]) : a[t][i] = b[t][i]

\* what loading the file as it was written gives
CleanRead ==
  ppdCacheCreateWithFile(TRUE, WrittenFile(written.cache, written.attrs),
                         last.want_attrs, "ok", "none")

\* C1: round trip.  Loading, with an attrs out-parameter, the file a cache
\* built from a device description was written to succeeds and gives the
\* same tables (entry counts, name pairs at every index, dimensions and
\* margins of every size) and the same attributes.
C1_RoundTrip ==
  (PlainRead /\ last.want_attrs /\ tamper.count = 0 /\ written # NotWritten)
    => /\ last.cache # NullCache
       /\ SameTables(last.cache, written.cache)
       /\ last.attrs = written.attrs

\* C2: atomic write.  Whenever ppdCacheWriteFile returns 0, the file name
\* still holds what it held before the call and the temporary sibling is
\* gone.
C2_AtomicWrite ==
  [][(last'.op = "write" /\ ~last'.ok) => (file' = file /\ temp' = NoFile)]_vars

\* C3: exact version.  A first line made of the magic prefix and a suffix
\* other than the decimal text of the current version is rejected as out of
\* date.
C3_ExactVersion ==
  (PlainRead /\ tamper.kind = "version" /\ tamper.arg # FormatInt(PPD_CACHE_VERSION))
    => /\ last.cache = NullCache
       /\ last.err = Err(MsgOutOfDate, TRUE)

C5_IppLength ==
  (PlainRead /\ tamper.kind = "ipp-length")
    => /\ last.cache = NullCache
       /\ last.err = Err(MsgBad, TRUE)

\* C6: declared and actual counts.  A file that has lost a Bin, Size, Source
\* or Type line (fewer than declared), has one of them twice (more than
\* declared) or has lost the Num* line its entries follow is rejected with
\* "Bad PPD cache file.".
C6_Counts ==
  (PlainRead /\ (\/ tamper.kind = "delete"
                 \/ tamper.kind = "duplicate" /\ tamper.arg \in DetailKeywords))
    => /\ last.cache = NullCache
       /\ last.err = Err(MsgBad, TRUE)

\* C7 as stated: a line with an unknown keyword, with or without a value,
\* added to a file as it was written never changes what the load returns.
C7_UnknownIgnored ==
  (PlainRead /\ tamper.count = 1 /\ tamper.kind = "insert"
             /\ tamper.arg \in UnknownWithValue \cup UnknownWithoutValue)
    => /\ last.cache = CleanRead.cache
       /\ last.attrs = CleanRead.attrs

\* C7: a line with an unknown keyword and a value, added to a file as it
\* was written (at the start of the directives, at their end or after the
\* attribute blob), never changes what the load returns; a line that has no
\* value after its keyword makes the load fail with "Bad PPD cache file.".
C7_UnknownWithValueIgnored ==
  /\ (PlainRead /\ tamper.count = 1 /\ tamper.kind = "insert"
                /\ tamper.arg \in UnknownWithValue)
       => /\ last.cache = CleanRead.cache
          /\ last.attrs = CleanRead.attrs
  /\ (PlainRead /\ tamper.count = 1 /\ tamper.kind = "insert"
                /\ tamper.arg \in UnknownWithoutValue)
       => /\ last.cache = NullCache
          /\ last.err = Err(MsgBad, TRUE)

\* a file with an added unknown keyword and value has been loaded
C7_Witness ==
  /\ PlainRead /\ tamper.kind = "insert" /\ tamper.arg \in UnknownWithValue
  /\ tamper.pos = "after"
  /\ last.cache # NullCache
  /\ SameTables(last.cache, written.cache)

\* C8: no half-built cache.  A load that fails returns NULL, leaves the
\* caller's attrs NULL and has released everything it allocated.
C8_NoHalfBuilt ==
  (last.op = "read" /\ last.cache = NullCache)
    => /\ ~last.ok
       /\ last.attrs = NullIpp
       /\ last.leaked = {}

\* C9: the status message of every failure.  Every call of
\* ppdCacheCreateWithFile, ppdCacheCreateWithPPD or ppdCacheWriteFile that
\* returns NULL or 0 has called set_error.
C9_ErrorOnEveryFailure ==
  (last.op \in {"read", "build", "write"} /\ ~last.ok) => last.err.called

\* C10: names of the built tables.  In a cache ppdCacheCreateWithPPD
\* returned, every entry of bins, sources and types has a non-empty PWG name
\* and a non-empty PPD name, and no two entries of a table share either.
C10_UniqueNames ==
  pc # NullCache =>
    \A t \in {"bins", "sources", "types"} :
      /\ \A i \in 1..Len(pc[t]) : Len(pc[t][i].pwg) > 0 /\ Len(pc[t][i].ppd) > 0
      /\ \A i, j \in 1..Len(pc[t]) :
           i # j => pc[t][i].pwg # pc[t][j].pwg /\ pc[t][i].ppd # pc[t][j].ppd

\* C11: the copy limit.  max_copies is at least 1 in every cache
\* ppdCacheCreateWithPPD returned and in every cache ppdCacheCreateWithFile
\* returned, whatever the MaxCopies directive of the file says.
C11_MaxCopies ==
  /\ pc # NullCache => pc.max_copies >= 1
  /\ (last.op = "read" /\ last.cache # NullCache) => last.cache.max_copies >= 1

\* the dimensions ppdCacheCreateWithPPD stores for a device page size, and
\* whether it takes the size as borderless
Resolved(z) ==
  pwgMediaForSize(PWG_FROM_POINTS(z.width), PWG_FROM_POINTS(z.length))

Borderless(z) ==
  /\ PWG_FROM_POINTS(z.left) = 0
  /\ PWG_FROM_POINTS(z.bottom) = 0
  /\ PWG_FROM_POINTS(z.width - z.right) = 0
  /\ PWG_FROM_POINTS(z.length - z.top) = 0

\* the page sizes the builder considers: not the "Custom" placeholder, and
\* with dimensions above zero
Considered(z) == ~ppd_strcasecmp(z.name, <<"C","u","s","t","o","m">>) /\ Resolved(z) # NullMedia

\* the size table before the i-th page size of the description just built
TableBefore(i) == IF i = 1 THEN <<>> ELSE last.steps[i - 1]

\* is entry e of the size table within 50 units of the device size z in
\* width and in length?
Within50(e, z) ==
  /\ Abs(e.width - Resolved(z).width) < 50
  /\ Abs(e.length - Resolved(z).length) < 50

EntryBorderless(e) == e.left = 0 /\ e.bottom = 0 /\ e.right = 0 /\ e.top = 0

\* the i-th page size has been appended to the size table as a new entry
Appended(i) ==
  /\ Len(last.steps[i]) = Len(TableBefore(i)) + 1
  /\ last.steps[i][Len(last.steps[i])].ppd = last.ppd.sizes[i].name
  /\ \A k \in 1..Len(TableBefore(i)) : last.steps[i][k] = TableBefore(i)[k]

Imageable(z) ==
  Resolved(z).length - PWG_FROM_POINTS(z.length - z.top) - PWG_FROM_POINTS(z.bottom)

EntryImageable(e) == e.length - e.top - e.bottom

\* the first entry of a table that the device size z collapses with (same
\* borderless-ness, less than 50 units apart), 0 if there is none
FirstSame(table, z) ==
  LET same == {k \in 1..Len(table) :
                 /\ Within50(table[k], z)
                 /\ EntryBorderless(table[k]) = Borderless(z)}
  IN  IF same = {} THEN 0 ELSE CHOOSE k \in same : \A j \in same : k <= j

VendorPrefixed(pwg) == Take(pwg, 3) = <<"o","e","_">> \/ Take(pwg, 3) = <<"o","m","_">>

\* the i-th page size takes the place of entry k, or the table stays as it is
Replaced(i, k) ==
  /\ last.steps[i][k].ppd = last.ppd.sizes[i].name
  /\ last.steps[i][k].top = PWG_FROM_POINTS(last.ppd.sizes[i].length - last.ppd.sizes[i].top)
  /\ \A j \in 1..Len(TableBefore(i)) : j # k => last.steps[i][j] = TableBefore(i)[j]

Kept(i) == last.steps[i] = TableBefore(i)

\* C13 as stated: of two device sizes that resolve to the same size the
\* one with the larger imageable length is kept, whichever comes first;
\* with equal imageable lengths the entry kept has a well-known name if
\* the size has one.
C13_LargerImageableKept ==
  (last.op = "build" /\ last.ok) =>
    \A i \in 1..Len(last.ppd.sizes) :
      (Considered(last.ppd.sizes[i]) /\ FirstSame(TableBefore(i), last.ppd.sizes[i]) > 0) =>
        LET z == last.ppd.sizes[i]
            k == FirstSame(TableBefore(i), z)
        IN  /\ Imageable(z) > EntryImageable(TableBefore(i)[k]) => Replaced(i, k)
            /\ Imageable(z) < EntryImageable(TableBefore(i)[k]) => Kept(i)
            /\ (/\ Imageable(z) = EntryImageable(TableBefore(i)[k])
                /\ Take(Resolved(z).pwg, 7) # <<"c","u","s","t","o","m","_">>)
                 => ~VendorPrefixed(last.steps[i][k].pwg) \/ VendorPrefixed(Resolved(z).pwg)

\* C13: a device size that collapses with an entry of the table takes the
\* entry's place if it got a standard name (the name of its standard size,
\* which no entry had yet), whatever the imageable lengths, and otherwise
\* only if the entry's name starts with "oe_" or "om_" and the new size's
\* imageable length is the larger one; in every other case the entry stays.
C13_KnownNameFirst ==
  (last.op = "build" /\ last.ok) =>
    \A i \in 1..Len(last.ppd.sizes) :
      (Considered(last.ppd.sizes[i]) /\ FirstSame(TableBefore(i), last.ppd.sizes[i]) > 0) =>
        LET z == last.ppd.sizes[i]
            k == FirstSame(TableBefore(i), z)
            standard == /\ Take(Resolved(z).pwg, 7) # <<"c","u","s","t","o","m","_">>
                        /\ \A j \in 1..Len(TableBefore(i)) :
                             TableBefore(i)[j].pwg # Resolved(z).pwg
        IN  IF standard
              THEN Replaced(i, k) /\ last.steps[i][k].pwg = Resolved(z).pwg
            ELSE IF VendorPrefixed(TableBefore(i)[k].pwg) /\
                    Imageable(z) > EntryImageable(TableBefore(i)[k])
              THEN Replaced(i, k) /\ VendorPrefixed(last.steps[i][k].pwg)
            ELSE Kept(i)

\* a letter size with narrow margins came after one with wide margins and
\* the table still has the first one
C13_Witness ==
  /\ last.op = "build" /\ last.ok
  /\ Len(last.ppd.sizes) = 2
  /\ Resolved(last.ppd.sizes[1]).pwg = <<"n","a","_","l","e","t","t","e","r","_","8",".","5","x","1","1","i","n">>
  /\ Resolved(last.ppd.sizes[2]).pwg = <<"n","a","_","l","e","t","t","e","r","_","8",".","5","x","1","1","i","n">>
  /\ Imageable(last.ppd.sizes[2]) > Imageable(last.ppd.sizes[1])
  /\ Len(pc.sizes) = 1
  /\ pc.sizes[1].ppd = last.ppd.sizes[1].name

\* the page size names of the form Custom.<W>x<L><unit> with whole numbers
\* W and L among the names asked for, with W * k and L * k
CustomExpected ==
  { <<<<"C","u","s","t","o","m",".","4","x","6","i","n">>, 10160, 15240>>, <<<<"C","u","s","t","o","m",".","1","0","0","x","1","5","0","m","m">>, 10000, 15000>>,
    <<<<"c","u","s","t","o","m",".","4","x","6","I","N">>, 10160, 15240>>, <<<<"C","u","s","t","o","m",".","2","x","3","f","t">>, 60960, 91440>>,
    <<<<"C","u","s","t","o","m",".","1","0","x","1","5","c","m">>, 10000, 15000>>, <<<<"C","u","s","t","o","m",".","1","x","2","m">>, 100000, 200000>>,
    <<<<"C","u","s","t","o","m",".","1","x","2","M">>, 100000, 200000>>, <<<<"C","u","s","t","o","m",".","7","2","x","1","4","4">>, 2540, 5080>>,
    <<<<"C","u","s","t","o","m",".","1","0","0","x","1","5","0">>, 3527, 5291>>, <<<<"C","u","s","t","o","m",".","0","x","0","i","n">>, 0, 0>> }

\* a name whose width has more than the 24 bits of a float
CustomHuge == {<<<<"C","u","s","t","o","m",".","1","6","7","7","7","2","1","7","x","1","m","m">>, 1677721700, 100>>}

\* the names without an "x" after the width
CustomWithoutX == {<<"C","u","s","t","o","m",".","4">>, <<"C","u","s","t","o","m",".","4","i","n">>, <<"C","u","s","t","o","m",".","4","-","6","i","n">>, <<"C","u","s","t","o","m",".","4","X","6","i","n">>}

\* the most recent call asked ppdCacheGetSize2 for the name of e and got
\* the dimensions of e
GotExpected(e) ==
  (last.op = "GetSize2" /\ last.page_size = e[1]) =>
    /\ last.ret = CustomSizePtr
    /\ last.size.width = e[2]
    /\ last.size.length = e[3]
    /\ last.size.ppd = e[1]

\* C14 as stated: Custom.<W>x<L><unit> gives width W * k and length L * k
\* for all whole numbers W and L, the unit in any case of letters; a name
\* without "x" after the width gives NULL.
C14_CustomParsing ==
  /\ \A e \in CustomExpected \cup CustomHuge : GotExpected(e)
  /\ (last.op = "GetSize2" /\ last.page_size \in CustomWithoutX) => last.ret = NullSizePtr

\* C14: Custom.<W>x<L><unit> gives width W * k and length L * k (k = 2540
\* for in, 30480 for ft, 100 for mm, 1000 for cm, 100000 for m; W * 2540 /
\* 72 and L * 2540 / 72 rounded down without a unit) for whole numbers W
\* and L up to 2^24, the unit in any case of letters; a name without "x"
\* after the width gives NULL.
C14_CustomParsingFloat ==
  /\ \A e \in CustomExpected : GotExpected(e)
  /\ (last.op = "GetSize2" /\ last.page_size \in CustomWithoutX) => last.ret = NullSizePtr

\* Custom.100x150 has been asked for and has given 3527 x 5291 units
C14_Witness ==
  /\ last.op = "GetSize2" /\ last.page_size = <<"C","u","s","t","o","m",".","1","0","0","x","1","5","0">>
  /\ last.ret = CustomSizePtr
  /\ last.size.width = 3527 /\ last.size.length = 5291

\* a description exposing the single option ColorModel with the choices Gray
\* and RGB
SingleColorModel(ppd) ==
  /\ Len(ppd.options) = 1
  /\ strcasecmp(ppd.options[1].name, <<"C","o","l","o","r","M","o","d","e","l">>)
  /\ {ppd.options[1].choices[k] : k \in 1..Len(ppd.options[1].choices)}
       = {<<"G","r","a","y">>, <<"R","G","B">>}

\* every monochrome cell contains ColorModel=Gray and every color cell
\* ColorModel=RGB
GridComplete(c) ==
  \A q \in 0..2 : /\ strstr(c.presets[0][q], <<"C","o","l","o","r","M","o","d","e","l","=","G","r","a","y">>)
                   /\ strstr(c.presets[1][q], <<"C","o","l","o","r","M","o","d","e","l","=","R","G","B">>)

\* C15: for a device description exposing a single option ColorModel whose
\* choices are Gray and RGB, after the preset assignment every monochrome
\* cell of the grid contains ColorModel=Gray and every color cell contains
\* ColorModel=RGB.
C15_PresetCompleteness ==
  (last.op = "build" /\ pc # NullCache /\ SingleColorModel(last.ppd))
    => GridComplete(pc)

\* C15 as amended: the same for the description of a color device without
\* an explicit preset whose option ColorModel is not in a group of
\* installable options.
C15_PresetCompletenessColorDevice ==
  (/\ last.op = "build" /\ pc # NullCache /\ SingleColorModel(last.ppd)
   /\ last.ppd.color_device
   /\ ppdFindAttr(last.ppd, "APPrinterPreset") = NullAttr
   /\ ~strncasecmp(last.ppd.options[1].group, <<"I","n","s","t","a","l","l","a","b","l","e">>, 11))
    => GridComplete(pc)

\* a color device whose default choice is RGB has been built, and its grid
\* is complete
C15_Witness ==
  /\ last.op = "build" /\ pc # NullCache /\ SingleColorModel(last.ppd)
  /\ last.ppd.color_device
  /\ last.ppd.options[1].defchoice = <<"R","G","B">>
  /\ last.ppd.options[1].group = <<"G","e","n","e","r","a","l">>
  /\ GridComplete(pc)

\* a call of ppdCacheGetFinishingValues with valid arguments has returned
ValidFinishingCall ==
  /\ last.op = "GetFinishingValues"
  /\ last.ppd # NullPPD /\ pc # NullCache
  /\ last.max_values >= 1 /\ last.values # "NULL"

\* every option/value pair of table entry i is the marked choice of its option
AllPairsMarked(i) ==
  LET pairs == OptionPairs(pc.finishings[i].options)
  IN  \A k \in 1..Len(pairs) :
         \E o \in 1..Len(last.ppd.options) :
            /\ ppd_strcasecmp(last.ppd.options[o].name, pairs[k].name)
            /\ last.marks[o] # NullStr
            /\ ppd_strcasecmp(last.marks[o], pairs[k].value)

\* the values of the entries whose pairs are all marked, in table order
RECURSIVE MarkedValues(_)
MarkedValues(i) ==
  IF i > Len(pc.finishings) THEN <<>>
  ELSE (IF AllPairsMarked(i) THEN <<pc.finishings[i].value>> ELSE <<>>)
       \o MarkedValues(i + 1)

\* what the call reports when the entries are scanned
ReportsMarked ==
  IF Len(MarkedValues(1)) = 0
    THEN last.num = 1 /\ last.written = <<3>>
    ELSE /\ last.written = Take(MarkedValues(1), last.max_values)
         /\ last.num = Len(last.written)

\* C16: for valid arguments ppdCacheGetFinishingValues reports the value of
\* a finishings-table entry if and only if every option/value pair of the
\* entry is the marked choice of that option, reports at most max_values
\* values, and when no entry matches, also when the cache has no finishings
\* table, reports exactly one value, the 'none' sentinel 3.
C16_FinishingValues == ValidFinishingCall => ReportsMarked

\* C16 as amended: the same for a cache that has a finishings table; for a
\* cache without one the function reports no value and returns 0.
C16_FinishingValuesOfTable ==
  ValidFinishingCall =>
    IF Len(pc.finishings) = 0
      THEN last.num = 0 /\ last.written = <<>>
      ELSE ReportsMarked

\* a job with the staple and the bind option marked got the values of both
\* from a table with three entries, in an array for two values
C16_Witness ==
  /\ ValidFinishingCall
  /\ Len(pc.finishings) = 3
  /\ last.max_values = 2
  /\ last.written = <<50, 20>>

\* the queries of a mapping table by keyword
MapQueries ==
  {"GetBin", "GetOutputBin", "GetSource", "GetType", "GetInputSlot", "GetMediaType"}

\* what a query of a mapping table answers to a keyword
Answer(op, c, job, keyword) ==
  CASE op = "GetBin" -> ppdCacheGetBin(c, keyword)
    [] op = "GetOutputBin" -> ppdCacheGetOutputBin(c, keyword)
    [] op = "GetSource" -> ppdCacheGetSource(c, keyword)
    [] op = "GetType" -> ppdCacheGetType(c, keyword)
    [] op = "GetInputSlot" -> ppdCacheGetInputSlot(c, job, keyword)
    [] op = "GetMediaType" -> ppdCacheGetMediaType(c, job, keyword)

\* the strings of the table column a query answers from
StoredNames(op, c) ==
  CASE op = "GetBin" -> {c.bins[i].pwg : i \in 1..Len(c.bins)}
    [] op = "GetOutputBin" -> {c.bins[i].ppd : i \in 1..Len(c.bins)}
    [] op = "GetSource" -> {c.sources[i].pwg : i \in 1..Len(c.sources)}
    [] op = "GetType" -> {c.types[i].pwg : i \in 1..Len(c.types)}
    [] op = "GetInputSlot" -> {c.sources[i].ppd : i \in 1..Len(c.sources)}
    [] op = "GetMediaType" -> {c.types[i].ppd : i \in 1..Len(c.types)}

\* a mapping table was asked for a keyword: every spelling of the keyword
\* gets the same answer, and an answer is a string of the table
MapQueryAnyCase ==
  last.op \in MapQueries /\ last.keyword # NullStr =>
    /\ \A v \in CaseVariants(last.keyword) :
          Answer(last.op, pc, last.job, v) = last.ret
    /\ last.ret # NullStr => last.ret \in StoredNames(last.op, pc)

\* ppdCacheGetPageSize was asked for a keyword that names an entry of the
\* size table: every spelling gets the device name stored in that entry
PageSizeAnyCase ==
  /\ last.op = "GetPageSize" /\ last.job = NullJob /\ last.keyword # NullStr
  /\ SizeNamed(pc.sizes, last.keyword) > 0
  => /\ \A v \in CaseVariants(last.keyword) :
           /\ ppdCacheGetPageSize(pc, NullJob, v, 0).ret = last.ret
           /\ ppdCacheGetPageSize(pc, NullJob, v, 0).exact = last.exact
     /\ last.ret = pc.sizes[SizeNamed(pc.sizes, last.keyword)].ppd

\* ppdCacheGetSize2 was asked for a name of an entry of the size table:
\* every spelling gets that entry
Size2AnyCase ==
  /\ last.op = "GetSize2" /\ last.page_size # NullStr
  /\ SizeNamed(pc.sizes, last.page_size) > 0
  => /\ \A v \in CaseVariants(last.page_size) :
           ppdCacheGetSize2(pc, v, last.ppd_size).ret = last.ret
     /\ last.ret = TablePtr(SizeNamed(pc.sizes, last.page_size))
     /\ last.size = pc.sizes[SizeNamed(pc.sizes, last.page_size)]

\* C17: ppdCacheGetBin, ppdCacheGetOutputBin, ppdCacheGetSource,
\* ppdCacheGetType, ppdCacheGetInputSlot and ppdCacheGetMediaType asked
\* for a keyword, and ppdCacheGetPageSize and ppdCacheGetSize2 asked for a
\* name of the size table, give the same result for every upper/lower-case
\* spelling of the keyword, and the string returned is the one stored in
\* the table entry, not the caller's input.
C17_CaseInsensitiveQueries ==
  MapQueryAnyCase /\ PageSizeAnyCase /\ Size2AnyCase

\* the output bin asked for in upper case was answered with the device's
\* spelling of the choice
C17_Witness ==
  /\ last.op = "GetOutputBin"
  /\ last.keyword = <<"F","A","C","E","-","D","O","W","N">>
  /\ last.ret = <<"F","a","c","e","D","o","w","n">>

\* a cache without its size scratch entry
WithoutScratch(c) == IF c = NullCache THEN c ELSE [c EXCEPT !.custom_size = ZeroSize]

\* a cache without its two scratch fields: the size entry and the text of
\* the custom page size name
WithoutScratches(c) ==
  IF c = NullCache THEN c
  ELSE [c EXCEPT !.custom_size = ZeroSize, !.custom_ppd_size = <<>>]

\* C18: after construction, no sequence of calls of the query functions
\* changes any field of the cache other than the size scratch entry
\* custom_size.
C18_ReadOnlyQueries ==
  [][phase = "built" => WithoutScratch(pc') = WithoutScratch(pc)]_vars

\* C18 as amended: no sequence of calls of the query functions changes any
\* field of the cache other than the size scratch entry custom_size and
\* the scratch text custom_ppd_size, which ppdCacheGetPageSize writes.
C18_ReadOnlyButScratches ==
  [][phase = "built" => WithoutScratches(pc') = WithoutScratches(pc)]_vars

\* after a size query and a page size query have written the two scratch
\* fields, a bin was asked for: the tables are those of the description
C18_Witness ==
  /\ phase = "built" /\ last.op = "GetBin" /\ last.ppd = OfficePPD
  /\ pc.custom_size.width = 10160
  /\ pc.custom_ppd_size = <<"C","u","s","t","o","m",".","2","8","8","x","4","3","2">>
  /\ WithoutScratches(pc)
       = WithoutScratches(ppdCacheCreateWithPPD(OfficePPD, "none").cache)

\* the names of the jobs that do not name an entry of the size table, with
\* the dimensions they stand for
ScratchSizes ==
  { <<<<"C","u","s","t","o","m",".","4","x","6","i","n">>, 10160, 15240>>, <<<<"C","u","s","t","o","m",".","1","0","0","x","1","5","0","m","m">>, 10000, 15000>>,
    <<<<"i","s","o","-","a","4">>, 21000, 29700>> }

\* what a caller reads through the size pointer it holds
ReadHeld(a) == SizeAt(pc, held[a].ptr)

\* C19: every ppdCacheGetSize2 call that resolves a custom size or a
\* standard size absent from the table returns the address of the one
\* record embedded in the cache and overwrites its name and dimensions, so
\* every caller that holds the result of an earlier such lookup reads the
\* name and the dimensions of the most recent one, whoever asked for it.
C19_SharedScratchSlot ==
  \A e \in ScratchSizes :
     (last.op = "GetSize2" /\ last.page_size = e[1]) =>
       /\ last.ret = CustomSizePtr
       /\ pc.custom_size.ppd = e[1]
       /\ pc.custom_size.width = e[2] /\ pc.custom_size.length = e[3]
       /\ \A a \in Callers :
             held[a].asked \in {x[1] : x \in ScratchSizes} =>
               /\ held[a].ptr = last.ret
               /\ ReadHeld(a).ppd = e[1]
               /\ ReadHeld(a).width = e[2] /\ ReadHeld(a).length = e[3]

\* job-1 asked for Custom.4x6in and holds the result, then job-2 asked for
\* Custom.100x150mm: job-1 reads 10000 x 15000, not the 10160 x 15240 it
\* asked for
C19_Witness ==
  /\ held["job-1"].asked = <<"C","u","s","t","o","m",".","4","x","6","i","n">> /\ held["job-1"].ptr = CustomSizePtr
  /\ held["job-2"].asked = <<"C","u","s","t","o","m",".","1","0","0","x","1","5","0","m","m">>
  /\ last.op = "GetSize2" /\ last.page_size = <<"C","u","s","t","o","m",".","1","0","0","x","1","5","0","m","m">>
  /\ ReadHeld("job-1").width = 10000 /\ ReadHeld("job-1").length = 15000

\* ppdCacheGetPageSize was given a keyword, and no job, that names no entry
\* of the size table and stands for a standard size
UnnamedStandardSize ==
  /\ last.op = "GetPageSize" /\ last.job = NullJob /\ last.keyword # NullStr
  /\ SizeNamed(pc.sizes, last.keyword) = 0
  /\ pwgMediaForKeyword(last.keyword) # NullMedia

\* the entries of the size table less than 176 units from the requested
\* size in width and in length
NearEntries ==
  {i \in 1..Len(pc.sizes) : InsideEpsilon(pc.sizes[i], KeywordSize(last.keyword))}

\* entry j is closer to the requested size than entry i
Closer(j, i) ==
  /\ Abs(pc.sizes[j].width - KeywordSize(last.keyword).width)
       <= Abs(pc.sizes[i].width - KeywordSize(last.keyword).width)
  /\ Abs(pc.sizes[j].length - KeywordSize(last.keyword).length)
       <= Abs(pc.sizes[i].length - KeywordSize(last.keyword).length)
  /\ Abs(pc.sizes[j].width - KeywordSize(last.keyword).width)
       + Abs(pc.sizes[j].length - KeywordSize(last.keyword).length)
       < Abs(pc.sizes[i].width - KeywordSize(last.keyword).width)
           + Abs(pc.sizes[i].length - KeywordSize(last.keyword).length)

\* the device name of an entry inside the epsilon was returned as exact, and
\* no entry outside is ever returned
ReturnsNearEntry ==
  /\ NearEntries # {} =>
       /\ last.entry \in NearEntries
       /\ last.ret = pc.sizes[last.entry].ppd
       /\ last.exact = 1
  /\ last.entry > 0 => last.entry \in NearEntries

\* C20: given a keyword that matches no device or canonical name of the
\* size table, ppdCacheGetPageSize returns, with *exact = 1, the device name
\* of the entry closest to the requested dimensions among the entries that
\* differ by less than 176 units in width and in length; an entry that
\* differs by 176 units or more is never returned.
C20_ClosestPageSize ==
  UnnamedStandardSize =>
    /\ ReturnsNearEntry
    /\ \A j \in NearEntries : ~Closer(j, last.entry)

\* C20 as amended: the entry returned is the first one, in the order of the
\* table, among the entries that differ by less than 176 units in width and
\* in length, whether or not a later one is closer.
C20_FirstPageSizeInEpsilon ==
  UnnamedStandardSize =>
    /\ ReturnsNearEntry
    /\ \A j \in NearEntries : last.entry <= j

\* the keyword of the foolscap size (21590 x 33020) was answered with the
\* first entry of the table, of 21600 x 33000 units, although the second
\* entry has the dimensions asked for
C20_Witness ==
  /\ UnnamedStandardSize
  /\ last.keyword = <<"F","a","n","F","o","l","d","G","e","r","m","a","n","L","e","g","a","l">>
  /\ NearEntries = {1, 2}
  /\ pc.sizes[2].width = 21590 /\ pc.sizes[2].length = 33020
  /\ last.entry = 1 /\ last.ret = <<"E","x","e","c">> /\ last.exact = 1

\* C21: ppdCacheDestroy releases every owned string and sub-list.  After
\* ppdCacheDestroy of a cache that ppdCacheCreateWithPPD or
\* ppdCacheCreateWithFile returned, no allocation made for the cache is
\* left, the duplex option name, the three sides choice names and the
\* list of finishing templates included.
C21_DestroyReleasesAll ==
  last.op = "destroy" => last.leaked = {}

\* the standard name a MediaType choice is classified to, NullStr when no
\* row of the standard types matches it
Classified(choice) ==
  IF \E j \in 1..Len(standard_types) : TypeMatches(choice, j)
    THEN TypeFirstPass(choice) ELSE NullStr

\* the choices classified to a standard name
Claimants(choices, n) == {i \in 1..Len(choices) : Classified(choices[i]) = n}

StandardTypeNames == {standard_types[j].pwg_name : j \in 1..Len(standard_types)}

BuiltWithTypes ==
  /\ phase = "built" /\ last.op = "build" /\ pc # NullCache
  /\ ppdFindOption(last.ppd, "MediaType") # NullOption

\* C22: when more than one MediaType choice is classified to the same
\* standard name, no entry of the types table carries that name and each of
\* these choices carries the generic transform of its own name; a standard
\* name that exactly one choice is classified to is kept by that choice.
C22_AmbiguousTypesRenamed ==
  BuiltWithTypes =>
    \A n \in StandardTypeNames :
      \A cl \in {Claimants(ppdFindOption(last.ppd, "MediaType").choices, n)} :
        /\ Cardinality(cl) > 1 =>
              /\ \A i \in 1..Len(pc.types) : pc.types[i].pwg # n
              /\ \A i \in cl : pc.types[i].pwg = ppdPwgUnppdizeName(pc.types[i].ppd, <<"_">>)
        /\ Cardinality(cl) = 1 => \A i \in cl : pc.types[i].pwg = n

\* the parts of C22 about the claimants themselves
C22_ClaimantsRenamed ==
  BuiltWithTypes =>
    \A n \in StandardTypeNames :
      \A cl \in {Claimants(ppdFindOption(last.ppd, "MediaType").choices, n)} :
        /\ Cardinality(cl) > 1 =>
              \A i \in cl : pc.types[i].pwg = ppdPwgUnppdizeName(pc.types[i].ppd, <<"_">>)
        /\ Cardinality(cl) = 1 => \A i \in cl : pc.types[i].pwg = n

\* the finishings values a call asks the options of: the values of the
\* job's "finishings" attribute, else the value argument unless it is "none"
Requested(job, value) ==
  IF job # NullJob /\ job.has_finishings THEN job.finishings
  ELSE IF value # IPP_FINISHINGS_NONE THEN <<value>>
  ELSE <<>>

\* the entries of the finishings table with a value
EntriesOf(c, value) == {i \in 1..Len(c.finishings) : c.finishings[i].value = value}

\* a call that passes a cache and a pointer to an option set
FinishingCall == last.op = "GetFinishingOptions" /\ last.given /\ pc # NullCache

NothingMatches ==
  \A k \in 1..Len(Requested(last.job, last.value)) :
    EntriesOf(pc, Requested(last.job, last.value)[k]) = {}

\* C23 as stated: the options of every entry that has a requested value are
\* in the option set afterwards, also when several entries have the same
\* value; the option set is unchanged when nothing matches.
C23_EveryMatchingEntry ==
  FinishingCall =>
    /\ \A k \in 1..Len(Requested(last.job, last.value)) :
         \A i \in EntriesOf(pc, Requested(last.job, last.value)[k]) :
           \A p \in 1..Len(OptionPairs(pc.finishings[i].options)) :
             cupsGetOption(OptionPairs(pc.finishings[i].options)[p].name, last.ret)
    /\ NothingMatches => last.ret = last.options

\* the option set after the options of the first entry of each value, from
\* value k on
RECURSIVE FirstEntries(_, _, _, _)
FirstEntries(c, values, k, options) ==
  IF k > Len(values) THEN options
  ELSE FirstEntries(c, values, k + 1,
         IF EntriesOf(c, values[k]) = {} THEN options
         ELSE AddOptions(
                OptionPairs(c.finishings[
                  CHOOSE i \in EntriesOf(c, values[k]) :
                    \A j \in EntriesOf(c, values[k]) : i <= j].options),
                1, options))

\* C23: for each requested finishing value the options of the first entry of
\* the finishings table with that value are added to the option set, also
\* when the table holds several entries with the value; the option set is
\* unchanged when nothing matches.
C23_FirstMatchingEntry ==
  FinishingCall =>
    /\ last.ret = FirstEntries(pc, Requested(last.job, last.value), 1, last.options)
    /\ NothingMatches => last.ret = last.options

\* a value with two entries in the table was asked, and the options of the
\* first were added
C23_Witness ==
  /\ FinishingCall
  /\ \E k \in 1..Len(Requested(last.job, last.value)) :
       Cardinality(EntriesOf(pc, Requested(last.job, last.value)[k])) > 1
  /\ last.ret # last.options

(***************************************************************************)
(* ppdConvertOptions: the job's options as attributes of a request          *)
(***************************************************************************)
\* an attribute of the printer, NULL or a list of keywords
NullSup == [given |-> FALSE, values |-> <<>>]

Sup(values) == [given |-> TRUE, values |-> values]

\* ippContainsString(attr, value)
ippContainsString(attr, value) ==
  attr.given /\ \E i \in 1..Len(attr.values) : attr.values[i] = value

\* ippAddString, ippAddInteger, ...: one more attribute of the request
ippAdd(request, group, tag, name, value) ==
  Append(request, [group |-> group, tag |-> tag, name |-> name, value |-> value])

\* the algorithms cupsHashData knows
HashAlgorithms ==
  { <<"m","d","5">>, <<"s","h","a">>, <<"s","h","a","2","-","2","2","4">>, <<"s","h","a","2","-","2","5","6">>, <<"s","h","a","2","-","3","8","4">>, <<"s","h","a","2","-","5","1","2">> }

\* job-password and job-password-encryption
ConvPassword(c, operation, options, request) ==
  IF c.password # NullStr /\ OptionValue(<<"j","o","b","-","p","a","s","s","w","o","r","d">>, options) # NullStr /\
     operation # "Validate-Job"
    THEN IF OptionValue(<<"j","o","b","-","p","a","s","s","w","o","r","d","-","e","n","c","r","y","p","t","i","o","n">>, options) \in {NullStr, <<"n","o","n","e">>}
           THEN ippAdd(ippAdd(request, "operation", "octetString", <<"j","o","b","-","p","a","s","s","w","o","r","d">>,
                              [plain |-> OptionValue(<<"j","o","b","-","p","a","s","s","w","o","r","d">>, options)]),
                       "operation", "keyword", <<"j","o","b","-","p","a","s","s","w","o","r","d","-","e","n","c","r","y","p","t","i","o","n">>, <<"n","o","n","e">>)
         ELSE IF OptionValue(<<"j","o","b","-","p","a","s","s","w","o","r","d","-","e","n","c","r","y","p","t","i","o","n">>, options) \in HashAlgorithms
           THEN ippAdd(ippAdd(request, "operation", "octetString", <<"j","o","b","-","p","a","s","s","w","o","r","d">>,
                              [hash |-> OptionValue(<<"j","o","b","-","p","a","s","s","w","o","r","d","-","e","n","c","r","y","p","t","i","o","n">>, options),
                               of   |-> OptionValue(<<"j","o","b","-","p","a","s","s","w","o","r","d">>, options)]),
                       "operation", "keyword", <<"j","o","b","-","p","a","s","s","w","o","r","d","-","e","n","c","r","y","p","t","i","o","n">>,
                       OptionValue(<<"j","o","b","-","p","a","s","s","w","o","r","d","-","e","n","c","r","y","p","t","i","o","n">>, options))
         ELSE request
    ELSE request

\* job-account-id
ConvAccountId(c, options, request) ==
  IF ~c.account_id THEN request
  ELSE IF OptionValue(<<"j","o","b","-","a","c","c","o","u","n","t","-","i","d">>, options) # NullStr
    THEN ippAdd(request, "job", "name", <<"j","o","b","-","a","c","c","o","u","n","t","-","i","d">>,
                OptionValue(<<"j","o","b","-","a","c","c","o","u","n","t","-","i","d">>, options))
  ELSE IF OptionValue(<<"j","o","b","-","b","i","l","l","i","n","g">>, options) # NullStr
    THEN ippAdd(request, "job", "name", <<"j","o","b","-","a","c","c","o","u","n","t","-","i","d">>,
                OptionValue(<<"j","o","b","-","b","i","l","l","i","n","g">>, options))
  ELSE request

\* job-accounting-user-id
ConvAccountingUserId(c, user, options, request) ==
  IF ~c.accounting_user_id THEN request
  ELSE IF OptionValue(<<"j","o","b","-","a","c","c","o","u","n","t","i","n","g","-","u","s","e","r","-","i","d">>, options) # NullStr
    THEN ippAdd(request, "job", "name", <<"j","o","b","-","a","c","c","o","u","n","t","i","n","g","-","u","s","e","r","-","i","d">>,
                OptionValue(<<"j","o","b","-","a","c","c","o","u","n","t","i","n","g","-","u","s","e","r","-","i","d">>, options))
  ELSE IF user # NullStr
    THEN ippAdd(request, "job", "name", <<"j","o","b","-","a","c","c","o","u","n","t","i","n","g","-","u","s","e","r","-","i","d">>, user)
  ELSE request

\* the mandatory attributes that other parts of the function send
HandledElsewhere ==
  { <<"c","o","p","i","e","s">>, <<"d","e","s","t","i","n","a","t","i","o","n","-","u","r","i","s">>, <<"f","i","n","i","s","h","i","n","g","s">>, <<"f","i","n","i","s","h","i","n","g","s","-","c","o","l">>,
    <<"f","i","n","i","s","h","i","n","g","-","t","e","m","p","l","a","t","e">>, <<"j","o","b","-","a","c","c","o","u","n","t","-","i","d">>, <<"j","o","b","-","a","c","c","o","u","n","t","i","n","g","-","u","s","e","r","-","i","d">>,
    <<"j","o","b","-","p","a","s","s","w","o","r","d">>, <<"j","o","b","-","p","a","s","s","w","o","r","d","-","e","n","c","r","y","p","t","i","o","n">>, <<"m","e","d","i","a">>,
    <<"m","u","l","t","i","p","l","e","-","d","o","c","u","m","e","n","t","-","h","a","n","d","l","i","n","g">>, <<"o","u","t","p","u","t","-","b","i","n">>, <<"p","r","i","n","t","-","c","o","l","o","r","-","m","o","d","e">>,
    <<"p","r","i","n","t","-","q","u","a","l","i","t","y">>, <<"s","i","d","e","s">> }

\* _ppdIppFindOption(name)->value_tag for the options of the table, "name"
\* for an option the table does not have
IppOptionTag(name) ==
  IF name \in {<<"j","o","b","-","p","r","i","o","r","i","t","y">>, <<"n","u","m","b","e","r","-","u","p">>} THEN "integer"
  ELSE IF name \in {<<"o","r","i","e","n","t","a","t","i","o","n","-","r","e","q","u","e","s","t","e","d">>} THEN "enum"
  ELSE IF name \in {<<"i","p","p","-","a","t","t","r","i","b","u","t","e","-","f","i","d","e","l","i","t","y">>} THEN "boolean"
  ELSE IF name \in {<<"p","a","g","e","-","r","a","n","g","e","s">>} THEN "rangeOfInteger"
  ELSE IF name \in {<<"p","r","i","n","t","-","s","c","a","l","i","n","g">>, <<"j","o","b","-","h","o","l","d","-","u","n","t","i","l">>, <<"p","r","i","n","t","-","c","o","l","o","r","-","m","o","d","e">>}
    THEN "keyword"
  ELSE "name"

\* sscanf(keyword, "%d-%d", &lower, &upper) == 2
IsRange(keyword) ==
  /\ ScanD(keyword).ok
  /\ At(ScanD(keyword).rest, 1) = "-"
  /\ ScanD(Drop(ScanD(keyword).rest, 1)).ok

\* a choice that takes "monochrome" whenever the printer has it
MonochromeLiteralFirst(print_color_mode_sup) ==
  IF ippContainsString(print_color_mode_sup, <<"m","o","n","o","c","h","r","o","m","e">>) THEN <<"m","o","n","o","c","h","r","o","m","e">>
  ELSE IF ippContainsString(print_color_mode_sup, <<"a","u","t","o","-","m","o","n","o","c","h","r","o","m","e">>)
    THEN <<"a","u","t","o","-","m","o","n","o","c","h","r","o","m","e">>
  ELSE IF ippContainsString(print_color_mode_sup, <<"p","r","o","c","e","s","s","-","m","o","n","o","c","h","r","o","m","e">>)
    THEN <<"p","r","o","c","e","s","s","-","m","o","n","o","c","h","r","o","m","e">>
  ELSE <<"m","o","n","o","c","h","r","o","m","e">>

\* what a monochrome job asks of a printer with these color modes
MonochromeKeyword(print_color_mode_sup) ==
  IF ippContainsString(print_color_mode_sup, <<"a","u","t","o","-","m","o","n","o","c","h","r","o","m","e">>)
    THEN <<"a","u","t","o","-","m","o","n","o","c","h","r","o","m","e">>
  ELSE IF ippContainsString(print_color_mode_sup, <<"p","r","o","c","e","s","s","-","m","o","n","o","c","h","r","o","m","e">>) /\
          ~ippContainsString(print_color_mode_sup, <<"m","o","n","o","c","h","r","o","m","e">>)
    THEN <<"p","r","o","c","e","s","s","-","m","o","n","o","c","h","r","o","m","e">>
  ELSE <<"m","o","n","o","c","h","r","o","m","e">>

\* one mandatory attribute with the value of its option
ConvMandatoryOne(mandatory, keyword, print_color_mode_sup, request) ==
  CASE IppOptionTag(mandatory) \in {"integer", "enum"} ->
         ippAdd(request, "job", IppOptionTag(mandatory), mandatory, atoi(keyword))
    [] IppOptionTag(mandatory) = "boolean" ->
         ippAdd(request, "job", "boolean", mandatory, ppd_strcasecmp(keyword, <<"t","r","u","e">>))
    [] IppOptionTag(mandatory) = "rangeOfInteger" ->
         ippAdd(request, "job", "rangeOfInteger", mandatory,
                IF IsRange(keyword)
                  THEN <<ScanD(keyword).val, ScanD(Drop(ScanD(keyword).rest, 1)).val>>
                  ELSE <<atoi(keyword), atoi(keyword)>>)
    [] OTHER ->
         ippAdd(request, "job", IppOptionTag(mandatory), mandatory,
                IF mandatory = <<"p","r","i","n","t","-","c","o","l","o","r","-","m","o","d","e">> /\ keyword = <<"m","o","n","o","c","h","r","o","m","e">>
                  THEN MonochromeKeyword(print_color_mode_sup) ELSE keyword)

\* the loop over pc->mandatory, from name i on
RECURSIVE ConvMandatory(_, _, _, _, _)
ConvMandatory(c, print_color_mode_sup, options, i, request) ==
  IF i > Len(c.mandatory) THEN request
  ELSE ConvMandatory(c, print_color_mode_sup, options, i + 1,
         IF c.mandatory[i] \notin HandledElsewhere /\
            ~strncmp(c.mandatory[i], <<"m","e","d","i","a","-","c","o","l">>, 9) /\
            OptionValue(c.mandatory[i], options) # NullStr
           THEN ConvMandatoryOne(c.mandatory[i], OptionValue(c.mandatory[i], options),
                                 print_color_mode_sup, request)
           ELSE request)

\* the name of the size the job asks for
MediaKeyword(options) ==
  IF OptionValue(<<"P","a","g","e","S","i","z","e">>, options) # NullStr
    THEN OptionValue(<<"P","a","g","e","S","i","z","e">>, options)
    ELSE OptionValue(<<"m","e","d","i","a">>, options)

\* the members of media-col that the printer supports, from name i of
\* media-col-supported on; size is the size found or ZeroSize with has_size
\* FALSE
RECURSIVE MediaColMembers(_, _, _, _, _, _, _)
MediaColMembers(media_col_sup, i, has_size, size, media_source, media_type, col) ==
  IF i > Len(media_col_sup.values) THEN col
  ELSE MediaColMembers(media_col_sup, i + 1, has_size, size, media_source, media_type,
         IF has_size /\ media_col_sup.values[i] = <<"m","e","d","i","a","-","l","e","f","t","-","m","a","r","g","i","n">>
           THEN ippAdd(col, "zero", "integer", <<"m","e","d","i","a","-","l","e","f","t","-","m","a","r","g","i","n">>, size.left)
         ELSE IF has_size /\ media_col_sup.values[i] = <<"m","e","d","i","a","-","b","o","t","t","o","m","-","m","a","r","g","i","n">>
           THEN ippAdd(col, "zero", "integer", <<"m","e","d","i","a","-","b","o","t","t","o","m","-","m","a","r","g","i","n">>, size.bottom)
         ELSE IF has_size /\ media_col_sup.values[i] = <<"m","e","d","i","a","-","r","i","g","h","t","-","m","a","r","g","i","n">>
           THEN ippAdd(col, "zero", "integer", <<"m","e","d","i","a","-","r","i","g","h","t","-","m","a","r","g","i","n">>, size.right)
         ELSE IF has_size /\ media_col_sup.values[i] = <<"m","e","d","i","a","-","t","o","p","-","m","a","r","g","i","n">>
           THEN ippAdd(col, "zero", "integer", <<"m","e","d","i","a","-","t","o","p","-","m","a","r","g","i","n">>, size.top)
         ELSE IF media_source # NullStr /\ media_col_sup.values[i] = <<"m","e","d","i","a","-","s","o","u","r","c","e">>
           THEN ippAdd(col, "zero", "keyword", <<"m","e","d","i","a","-","s","o","u","r","c","e">>, media_source)
         ELSE IF media_type # NullStr /\ media_col_sup.values[i] = <<"m","e","d","i","a","-","t","y","p","e">>
           THEN ippAdd(col, "zero", "keyword", <<"m","e","d","i","a","-","t","y","p","e">>, media_type)
         ELSE col)

\* media-col; found is what ppdCacheGetSize2 returned
ConvMedia(found, media_source, media_type, media_col_sup, request) ==
  IF found.ret = NullSizePtr /\ media_source = NullStr /\ media_type = NullStr
    THEN request
    ELSE ippAdd(request, "job", "collection", <<"m","e","d","i","a","-","c","o","l">>,
           MediaColMembers(media_col_sup, 1, found.ret # NullSizePtr,
             IF found.ret = NullSizePtr THEN ZeroSize ELSE SizeAt(found.pc, found.ret),
             media_source, media_type,
             IF found.ret = NullSizePtr THEN <<>>
             ELSE ippAdd(<<>>, "zero", "collection", <<"m","e","d","i","a","-","s","i","z","e">>,
                    ippAdd(ippAdd(<<>>, "zero", "integer", <<"x","-","d","i","m","e","n","s","i","o","n">>,
                                  SizeAt(found.pc, found.ret).width),
                           "zero", "integer", <<"y","-","d","i","m","e","n","s","i","o","n">>,
                           SizeAt(found.pc, found.ret).length))))

\* output-bin
ConvOutputBin(ppd, marks, c, options, request) ==
  IF OptionValue(<<"o","u","t","p","u","t","-","b","i","n">>, options) # NullStr
    THEN ippAdd(request, "job", "keyword", <<"o","u","t","p","u","t","-","b","i","n">>,
                OptionValue(<<"o","u","t","p","u","t","-","b","i","n">>, options))
  ELSE IF ppdFindMarkedChoice(ppd, marks, <<"O","u","t","p","u","t","B","i","n">>) # NullStr /\
          ppdCacheGetBin(c, ppdFindMarkedChoice(ppd, marks, <<"O","u","t","p","u","t","B","i","n">>)) # NullStr
    THEN ippAdd(request, "job", "keyword", <<"o","u","t","p","u","t","-","b","i","n">>,
                ppdCacheGetBin(c, ppdFindMarkedChoice(ppd, marks, <<"O","u","t","p","u","t","B","i","n">>)))
  ELSE request

\* the choices of ColorModel that stand for monochrome
GrayModels == { <<"G","r","a","y">>, <<"F","a","s","t","G","r","a","y">>, <<"D","e","v","i","c","e","G","r","a","y">> }

\* the color mode of the job before the printer's modes are looked at:
\* from the option ColorModel, else from the marked choice of ColorModel,
\* else the option print-color-mode
ColorKeyword(ppd, marks, options) ==
  IF OptionValue(<<"C","o","l","o","r","M","o","d","e","l">>, options) # NullStr
    THEN (IF OptionValue(<<"C","o","l","o","r","M","o","d","e","l">>, options) \in GrayModels
            THEN <<"m","o","n","o","c","h","r","o","m","e">> ELSE <<"c","o","l","o","r">>)
  ELSE IF ppdFindMarkedChoice(ppd, marks, <<"C","o","l","o","r","M","o","d","e","l">>) # NullStr
    THEN (IF ppdFindMarkedChoice(ppd, marks, <<"C","o","l","o","r","M","o","d","e","l">>) \in GrayModels
            THEN <<"m","o","n","o","c","h","r","o","m","e">> ELSE <<"c","o","l","o","r">>)
  ELSE OptionValue(<<"p","r","i","n","t","-","c","o","l","o","r","-","m","o","d","e">>, options)

\* print-color-mode, or output-mode for a printer without
\* print-color-mode-supported
ConvColor(keyword, print_color_mode_sup, request) ==
  IF keyword = NullStr THEN request
  ELSE ippAdd(request, "job", "keyword",
              IF print_color_mode_sup.given THEN <<"p","r","i","n","t","-","c","o","l","o","r","-","m","o","d","e">> ELSE <<"o","u","t","p","u","t","-","m","o","d","e">>,
              IF keyword = <<"m","o","n","o","c","h","r","o","m","e">>
                THEN MonochromeKeyword(print_color_mode_sup) ELSE keyword)

IPP_QUALITY_DRAFT == 3

IPP_QUALITY_NORMAL == 4

IPP_QUALITY_HIGH == 5

\* print-quality
ConvQuality(ppd, marks, options, request) ==
  IF OptionValue(<<"p","r","i","n","t","-","q","u","a","l","i","t","y">>, options) # NullStr
    THEN ippAdd(request, "job", "enum", <<"p","r","i","n","t","-","q","u","a","l","i","t","y">>,
                atoi(OptionValue(<<"p","r","i","n","t","-","q","u","a","l","i","t","y">>, options)))
  ELSE IF ppdFindMarkedChoice(ppd, marks, <<"c","u","p","s","P","r","i","n","t","Q","u","a","l","i","t","y">>) = NullStr THEN request
  ELSE IF ppd_strcasecmp(ppdFindMarkedChoice(ppd, marks, <<"c","u","p","s","P","r","i","n","t","Q","u","a","l","i","t","y">>), <<"d","r","a","f","t">>)
    THEN ippAdd(request, "job", "enum", <<"p","r","i","n","t","-","q","u","a","l","i","t","y">>, IPP_QUALITY_DRAFT)
  ELSE IF ppd_strcasecmp(ppdFindMarkedChoice(ppd, marks, <<"c","u","p","s","P","r","i","n","t","Q","u","a","l","i","t","y">>), <<"n","o","r","m","a","l">>)
    THEN ippAdd(request, "job", "enum", <<"p","r","i","n","t","-","q","u","a","l","i","t","y">>, IPP_QUALITY_NORMAL)
  ELSE IF ppd_strcasecmp(ppdFindMarkedChoice(ppd, marks, <<"c","u","p","s","P","r","i","n","t","Q","u","a","l","i","t","y">>), <<"h","i","g","h">>)
    THEN ippAdd(request, "job", "enum", <<"p","r","i","n","t","-","q","u","a","l","i","t","y">>, IPP_QUALITY_HIGH)
  ELSE request

\* sides from the marked choice of the duplex option
MarkedSides(c, choice) ==
  IF choice = NullStr THEN NullStr
  ELSE IF c.sides_1sided # NullStr /\ ppd_strcasecmp(choice, c.sides_1sided)
    THEN <<"o","n","e","-","s","i","d","e","d">>
  ELSE IF c.sides_2sided_long # NullStr /\ ppd_strcasecmp(choice, c.sides_2sided_long)
    THEN <<"t","w","o","-","s","i","d","e","d","-","l","o","n","g","-","e","d","g","e">>
  ELSE IF c.sides_2sided_short # NullStr /\ ppd_strcasecmp(choice, c.sides_2sided_short)
    THEN <<"t","w","o","-","s","i","d","e","d","-","s","h","o","r","t","-","e","d","g","e">>
  ELSE NullStr

\* sides
ConvSides(ppd, marks, c, options, request) ==
  IF OptionValue(<<"s","i","d","e","s">>, options) # NullStr
    THEN ippAdd(request, "job", "keyword", <<"s","i","d","e","s">>, OptionValue(<<"s","i","d","e","s">>, options))
  ELSE IF c.sides_option # NullStr /\
          MarkedSides(c, ppdFindMarkedChoice(ppd, marks, c.sides_option)) # NullStr
    THEN ippAdd(request, "job", "keyword", <<"s","i","d","e","s">>,
                MarkedSides(c, ppdFindMarkedChoice(ppd, marks, c.sides_option)))
  ELSE request

\* the formats of images that have one page
SinglePageImage(format) ==
  \/ \E f \in { <<"i","m","a","g","e","/","g","i","f">>, <<"i","m","a","g","e","/","j","p","2">>, <<"i","m","a","g","e","/","j","p","e","g">>, <<"i","m","a","g","e","/","p","n","g">>,
                <<"i","m","a","g","e","/","t","i","f","f">> } : ppd_strcasecmp(format, f)
  \/ ppd_strncasecmp(format, <<"i","m","a","g","e","/","x","-">>, 8)

\* the formats whose copies the filters before have made
CopiesMadeUpstream(format) ==
  /\ ~SinglePageImage(format)
  /\ \/ ppd_strncasecmp(format, <<"i","m","a","g","e","/">>, 6)
     \/ ppd_strcasecmp(format, <<"a","p","p","l","i","c","a","t","i","o","n","/","v","n","d",".","c","u","p","s","-","r","a","s","t","e","r">>)

\* "true" or "false" or the value of the option collate
CollateKeyword(format, options) ==
  IF format # NullStr /\ SinglePageImage(format) THEN <<"f","a","l","s","e">>
  ELSE IF OptionValue(<<"m","u","l","t","i","p","l","e","-","d","o","c","u","m","e","n","t","-","h","a","n","d","l","i","n","g">>, options) # NullStr
    THEN (IF strstr(OptionValue(<<"m","u","l","t","i","p","l","e","-","d","o","c","u","m","e","n","t","-","h","a","n","d","l","i","n","g">>, options), <<"u","n","c","o","l","l","a","t","e","d">>)
            THEN <<"f","a","l","s","e">> ELSE <<"t","r","u","e">>)
  ELSE IF OptionValue(<<"c","o","l","l","a","t","e">>, options) # NullStr
    THEN OptionValue(<<"c","o","l","l","a","t","e">>, options)
  ELSE <<"t","r","u","e">>

\* collate_str
CollateStr(format, options) ==
  IF ppd_strcasecmp(CollateKeyword(format, options), <<"t","r","u","e">>)
    THEN <<"s","e","p","a","r","a","t","e","-","d","o","c","u","m","e","n","t","s","-","c","o","l","l","a","t","e","d","-","c","o","p","i","e","s">>
    ELSE <<"s","e","p","a","r","a","t","e","-","d","o","c","u","m","e","n","t","s","-","u","n","c","o","l","l","a","t","e","d","-","c","o","p","i","e","s">>

\* multiple-document-handling
ConvCollate(doc_handling_sup, format, options, request) ==
  IF ippContainsString(doc_handling_sup, CollateStr(format, options))
    THEN ippAdd(request, "job", "keyword", <<"m","u","l","t","i","p","l","e","-","d","o","c","u","m","e","n","t","-","h","a","n","d","l","i","n","g">>,
                CollateStr(format, options))
    ELSE request

\* copies at the end of the function
CopiesReturned(doc_handling_sup, format, copies, options) ==
  IF format # NullStr /\ CopiesMadeUpstream(format) THEN 1
  ELSE IF doc_handling_sup.given /\
          ~ippContainsString(doc_handling_sup, CollateStr(format, options))
    THEN 1
  ELSE copies

\* job_pages after "Figure out the proper job-pages-per-set value"
JobPagesGiven(options) ==
  IF OptionValue(<<"j","o","b","-","p","a","g","e","s">>, options) # NullStr
    THEN OptionValue(<<"j","o","b","-","p","a","g","e","s">>, options)
    ELSE OptionValue(<<"c","o","m",".","a","p","p","l","e",".","p","r","i","n","t",".","P","r","i","n","t","S","e","t","t","i","n","g","s",".","P","M","T","o","t","a","l","B","e","g","i","n","P","a","g","e","s",".",".","n",".">>, options)

AtLeastOne(n) == IF n < 1 THEN 1 ELSE n

\* a page count that rounds the sheets down
JobPagesFloor(options) ==
  (IF JobPagesGiven(options) # NullStr THEN AtLeastOne(atoi(JobPagesGiven(options)))
   ELSE 0)
  \div (IF OptionValue(<<"n","u","m","b","e","r","-","u","p">>, options) # NullStr
          THEN AtLeastOne(atoi(OptionValue(<<"n","u","m","b","e","r","-","u","p">>, options))) ELSE 1)

JobPagesPerSheet(options) ==
  ((IF JobPagesGiven(options) # NullStr THEN AtLeastOne(atoi(JobPagesGiven(options)))
    ELSE 0)
   + (IF OptionValue(<<"n","u","m","b","e","r","-","u","p">>, options) # NullStr
        THEN AtLeastOne(atoi(OptionValue(<<"n","u","m","b","e","r","-","u","p">>, options))) ELSE 1)
   - 1)
  \div (IF OptionValue(<<"n","u","m","b","e","r","-","u","p">>, options) # NullStr
          THEN AtLeastOne(atoi(OptionValue(<<"n","u","m","b","e","r","-","u","p">>, options))) ELSE 1)

\* job_pages when the finishings are mapped; changed is copies !=
\* finishings_copies
JobPages(changed, options) ==
  IF ~changed THEN 0
  ELSE IF JobPagesPerSheet(options) % 2 = 1 /\
          OptionValue(<<"s","i","d","e","s">>, options) \notin {NullStr, <<"o","n","e","-","s","i","d","e","d">>}
    THEN JobPagesPerSheet(options) + 1
  ELSE JobPagesPerSheet(options)

\* job-pages-per-set behind a finishing
ConvPagesPerSet(changed, options, request) ==
  IF changed /\ JobPages(changed, options) > 0
    THEN ippAdd(request, "job", "integer", <<"j","o","b","-","p","a","g","e","s","-","p","e","r","-","s","e","t">>,
                JobPages(changed, options))
    ELSE request

\* the finishing template the job asks for
FinishingTemplate(options) ==
  IF OptionValue(<<"c","u","p","s","F","i","n","i","s","h","i","n","g","T","e","m","p","l","a","t","e">>, options) # NullStr
    THEN OptionValue(<<"c","u","p","s","F","i","n","i","s","h","i","n","g","T","e","m","p","l","a","t","e">>, options)
    ELSE OptionValue(<<"f","i","n","i","s","h","i","n","g","-","t","e","m","p","l","a","t","e">>, options)

\* the size of finishings[] in ppdConvertOptions
MaxFinishings == 10

\* "Map finishing options"; found is what ppdCacheGetFinishingValues returned
ConvFinishings(found, changed, options, request) ==
  IF FinishingTemplate(options) \notin {NullStr, <<"n","o","n","e">>}
    THEN ConvPagesPerSet(changed, options,
           ippAdd(request, "job", "collection", <<"f","i","n","i","s","h","i","n","g","s","-","c","o","l">>,
                  ippAdd(<<>>, "job", "keyword", <<"f","i","n","i","s","h","i","n","g","-","t","e","m","p","l","a","t","e">>,
                         FinishingTemplate(options))))
  ELSE IF found.num > 0
    THEN ConvPagesPerSet(changed, options,
           ippAdd(request, "job", "enum", <<"f","i","n","i","s","h","i","n","g","s">>, found.values))
  ELSE request

\* copies = ppdConvertOptions(request, ppd, pc, media_col_sup,
\* doc_handling_sup, print_color_mode_sup, user, format, copies, num_options,
\* options) for a request without attributes: the attributes of the request
\* afterwards, the copies returned, and the cache afterwards
ppdConvertOptions(operation, ppd, marks, c, media_col_sup, doc_handling_sup, print_color_mode_sup, user, format, copies, options) ==
  [ request |->
      ConvFinishings(
        ppdCacheGetFinishingValues(ppd, marks, c, MaxFinishings, "finishings"),
        CopiesReturned(doc_handling_sup, format, copies, options) # copies, options,
        ConvCollate(doc_handling_sup, format, options,
          ConvSides(ppd, marks, c, options,
            ConvQuality(ppd, marks, options,
              ConvColor(ColorKeyword(ppd, marks, options), print_color_mode_sup,
                ConvOutputBin(ppd, marks, c, options,
                  ConvMedia(ppdCacheGetSize2(c, MediaKeyword(options), NullMedia),
                            ppdCacheGetSource(c, OptionValue(<<"I","n","p","u","t","S","l","o","t">>, options)),
                            ppdCacheGetType(c, OptionValue(<<"M","e","d","i","a","T","y","p","e">>, options)),
                            media_col_sup,
                    ConvMandatory(c, print_color_mode_sup, options, 1,
                      ConvAccountingUserId(c, user, options,
                        ConvAccountId(c, options,
                          ConvPassword(c, operation, options, <<>>))))))))))),
    copies |-> CopiesReturned(doc_handling_sup, format, copies, options),
    pc |-> ppdCacheGetSize2(c, MediaKeyword(options), NullMedia).pc ]

(***************************************************************************)
(* Jobs that are sent to a printer: the cache of a description is built,   *)
(* then the options of one job are converted                               *)
(***************************************************************************)
\* a color device that asks for a password and for mandatory attributes
ConvertDevice ==
  [MinimalPPD EXCEPT
     !.color_device = TRUE,
     !.options =
        << [keyword |-> "ColorModel", name |-> <<"C","o","l","o","r","M","o","d","e","l">>,
            choices |-> <<<<"G","r","a","y">>, <<"R","G","B">>>>,
            group |-> <<"G","e","n","e","r","a","l">>, defchoice |-> <<"G","r","a","y">>],
           [keyword |-> "Duplex", name |-> <<"D","u","p","l","e","x">>,
            choices |-> <<<<"N","o","n","e">>, <<"D","u","p","l","e","x","N","o","T","u","m","b","l","e">>>>,
            group |-> <<"G","e","n","e","r","a","l">>, defchoice |-> <<"N","o","n","e">>],
           [keyword |-> "OutputBin", name |-> <<"O","u","t","p","u","t","B","i","n">>,
            choices |-> <<<<"F","a","c","e","D","o","w","n">>, <<"R","e","a","r">>>>,
            group |-> <<"G","e","n","e","r","a","l">>, defchoice |-> <<"F","a","c","e","D","o","w","n">>],
           [keyword |-> "cupsPrintQuality", name |-> <<"c","u","p","s","P","r","i","n","t","Q","u","a","l","i","t","y">>,
            choices |-> <<<<"D","r","a","f","t">>, <<"H","i","g","h">>>>,
            group |-> <<"G","e","n","e","r","a","l">>, defchoice |-> <<"D","r","a","f","t">>],
           [keyword |-> "StapleLocation", name |-> <<"S","t","a","p","l","e","L","o","c","a","t","i","o","n">>,
            choices |-> <<<<"N","o","n","e">>, <<"S","i","n","g","l","e","P","o","r","t","r","a","i","t">>>>,
            group |-> <<"F","i","n","i","s","h","i","n","g">>, defchoice |-> <<"N","o","n","e">>] >>,
     !.attrs =
        << [name |-> "cupsJobPassword", spec |-> <<>>, value |-> <<"1","1","1","1">>],
           [name |-> "cupsMandatory", spec |-> <<>>,
            value |-> <<"s","i","d","e","s"," ","p","a","g","e","-","r","a","n","g","e","s"," ","j","o","b","-","p","r","i","o","r","i","t","y"," ","p","r","i","n","t","-","s","c","a","l","i","n","g"," ","i","p","p","-","a","t","t","r","i","b","u","t","e","-","f","i","d","e","l","i","t","y">>],
           [name |-> "cupsJobAccountId", spec |-> <<>>, value |-> <<"t","r","u","e">>],
           [name |-> "cupsJobAccountingUserId", spec |-> <<>>, value |-> <<"t","r","u","e">>] >>]

ConvertDevices == {ConvertDevice, MinimalPPD}

\* the marked choices of a description: the defaults, the second choices, or
\* none
MarksOf(ppd, kind) ==
  [i \in 1..Len(ppd.options) |->
     IF kind = "default" THEN ppd.options[i].defchoice
     ELSE IF kind = "second" THEN ppd.options[i].choices[2]
     ELSE NullStr]

Opt(name, value) == <<[name |-> name, value |-> value]>>

\* print-color-mode-supported of printers
ColorSups ==
  { NullSup, Sup(<<>>), Sup(<<<<"m","o","n","o","c","h","r","o","m","e">>, <<"c","o","l","o","r">>>>),
    Sup(<<<<"m","o","n","o","c","h","r","o","m","e">>, <<"a","u","t","o","-","m","o","n","o","c","h","r","o","m","e">>, <<"c","o","l","o","r">>>>),
    Sup(<<<<"a","u","t","o","-","m","o","n","o","c","h","r","o","m","e">>, <<"c","o","l","o","r">>>>),
    Sup(<<<<"p","r","o","c","e","s","s","-","m","o","n","o","c","h","r","o","m","e">>, <<"c","o","l","o","r">>>>),
    Sup(<<<<"m","o","n","o","c","h","r","o","m","e">>, <<"p","r","o","c","e","s","s","-","m","o","n","o","c","h","r","o","m","e">>>>) }

\* jobs that differ in the color they ask for
ColorJobs ==
  { [operation |-> "Print-Job", marks |-> marks, media_col_sup |-> NullSup,
     doc_handling_sup |-> NullSup, print_color_mode_sup |-> sup,
     user |-> NullStr, format |-> <<"a","p","p","l","i","c","a","t","i","o","n","/","p","d","f">>, copies |-> 1,
     options |-> options] :
      marks \in {"default", "second", "none"},
      sup \in ColorSups,
      options \in { <<>>, Opt(<<"C","o","l","o","r","M","o","d","e","l">>, <<"G","r","a","y">>), Opt(<<"C","o","l","o","r","M","o","d","e","l">>, <<"D","e","v","i","c","e","G","r","a","y">>),
                    Opt(<<"C","o","l","o","r","M","o","d","e","l">>, <<"R","G","B">>), Opt(<<"C","o","l","o","r","M","o","d","e","l">>, <<"g","r","a","y">>),
                    Opt(<<"p","r","i","n","t","-","c","o","l","o","r","-","m","o","d","e">>, <<"m","o","n","o","c","h","r","o","m","e">>),
                    Opt(<<"p","r","i","n","t","-","c","o","l","o","r","-","m","o","d","e">>, <<"c","o","l","o","r">>) } }

\* multiple-document-handling-supported of printers
DocSups ==
  { NullSup,
    Sup(<<<<"s","e","p","a","r","a","t","e","-","d","o","c","u","m","e","n","t","s","-","c","o","l","l","a","t","e","d","-","c","o","p","i","e","s">>>>),
    Sup(<<<<"s","i","n","g","l","e","-","d","o","c","u","m","e","n","t">>, <<"s","e","p","a","r","a","t","e","-","d","o","c","u","m","e","n","t","s","-","u","n","c","o","l","l","a","t","e","d","-","c","o","p","i","e","s">>,
          <<"s","e","p","a","r","a","t","e","-","d","o","c","u","m","e","n","t","s","-","c","o","l","l","a","t","e","d","-","c","o","p","i","e","s">>>>) }

\* the copies jobs ask for
CopyCounts == {1, 3}

\* jobs that differ in their copies, pages, sides and finishings
CopyJobs ==
  { [operation |-> "Print-Job", marks |-> marks, media_col_sup |-> NullSup,
     doc_handling_sup |-> sup, print_color_mode_sup |-> NullSup,
     user |-> NullStr, format |-> format, copies |-> copies,
     options |-> pages \o nup \o sides \o fin \o collate] :
      marks \in {"default", "second"},
      sup \in DocSups,
      format \in { NullStr, <<"i","m","a","g","e","/","j","p","e","g">>, <<"I","M","A","G","E","/","U","R","F">>,
                   <<"a","p","p","l","i","c","a","t","i","o","n","/","v","n","d",".","c","u","p","s","-","r","a","s","t","e","r">>, <<"a","p","p","l","i","c","a","t","i","o","n","/","p","d","f">> },
      copies \in CopyCounts,
      pages \in { <<>>, Opt(<<"j","o","b","-","p","a","g","e","s">>, <<"5">>), Opt(<<"j","o","b","-","p","a","g","e","s">>, <<"0">>),
                  Opt(<<"c","o","m",".","a","p","p","l","e",".","p","r","i","n","t",".","P","r","i","n","t","S","e","t","t","i","n","g","s",".","P","M","T","o","t","a","l","B","e","g","i","n","P","a","g","e","s",".",".","n",".">>, <<"4">>) },
      nup \in { <<>>, Opt(<<"n","u","m","b","e","r","-","u","p">>, <<"2">>) },
      sides \in { <<>>, Opt(<<"s","i","d","e","s">>, <<"o","n","e","-","s","i","d","e","d">>),
                  Opt(<<"s","i","d","e","s">>, <<"t","w","o","-","s","i","d","e","d","-","l","o","n","g","-","e","d","g","e">>) },
      fin \in { <<>>, Opt(<<"f","i","n","i","s","h","i","n","g","-","t","e","m","p","l","a","t","e">>, <<"s","t","a","p","l","e">>),
                Opt(<<"f","i","n","i","s","h","i","n","g","-","t","e","m","p","l","a","t","e">>, <<"n","o","n","e">>) },
      collate \in { <<>>, Opt(<<"c","o","l","l","a","t","e">>, <<"f","a","l","s","e">>),
                    Opt(<<"m","u","l","t","i","p","l","e","-","d","o","c","u","m","e","n","t","-","h","a","n","d","l","i","n","g">>,
                        <<"s","e","p","a","r","a","t","e","-","d","o","c","u","m","e","n","t","s","-","u","n","c","o","l","l","a","t","e","d","-","c","o","p","i","e","s">>) } }

\* jobs with a password, accounts, mandatory attributes and media
OtherJobs ==
  { [operation |-> operation, marks |-> "default", media_col_sup |-> sup,
     doc_handling_sup |-> NullSup, print_color_mode_sup |-> NullSup,
     user |-> user, format |-> NullStr, copies |-> 1,
     options |-> secret \o account \o wanted \o media] :
      operation \in {"Print-Job", "Validate-Job"},
      sup \in { NullSup,
                Sup(<<<<"m","e","d","i","a","-","s","i","z","e">>, <<"m","e","d","i","a","-","t","o","p","-","m","a","r","g","i","n">>, <<"m","e","d","i","a","-","l","e","f","t","-","m","a","r","g","i","n">>,
                      <<"m","e","d","i","a","-","s","o","u","r","c","e">>, <<"m","e","d","i","a","-","t","y","p","e">>>>) },
      user \in {NullStr, <<"a","n","n","a">>},
      secret \in { <<>>, Opt(<<"j","o","b","-","p","a","s","s","w","o","r","d">>, <<"1","2","3","4">>),
                   Opt(<<"j","o","b","-","p","a","s","s","w","o","r","d">>, <<"1","2","3","4">>)
                     \o Opt(<<"j","o","b","-","p","a","s","s","w","o","r","d","-","e","n","c","r","y","p","t","i","o","n">>, <<"s","h","a","2","-","2","5","6">>),
                   Opt(<<"j","o","b","-","p","a","s","s","w","o","r","d">>, <<"1","2","3","4">>)
                     \o Opt(<<"j","o","b","-","p","a","s","s","w","o","r","d","-","e","n","c","r","y","p","t","i","o","n">>, <<"r","o","t","1","3">>) },
      account \in { <<>>, Opt(<<"j","o","b","-","b","i","l","l","i","n","g">>, <<"4","2">>),
                    Opt(<<"j","o","b","-","a","c","c","o","u","n","t","i","n","g","-","u","s","e","r","-","i","d">>, <<"b","o","b">>) },
      wanted \in { <<>>, Opt(<<"p","a","g","e","-","r","a","n","g","e","s">>, <<"2","-","5">>) \o Opt(<<"j","o","b","-","p","r","i","o","r","i","t","y">>, <<"5","0">>),
                   Opt(<<"p","a","g","e","-","r","a","n","g","e","s">>, <<"7">>) \o Opt(<<"p","r","i","n","t","-","s","c","a","l","i","n","g">>, <<"f","i","t">>)
                     \o Opt(<<"i","p","p","-","a","t","t","r","i","b","u","t","e","-","f","i","d","e","l","i","t","y">>, <<"T","r","u","e">>)
                     \o Opt(<<"s","i","d","e","s">>, <<"o","n","e","-","s","i","d","e","d">>) },
      media \in { <<>>, Opt(<<"P","a","g","e","S","i","z","e">>, <<"A","4">>), Opt(<<"m","e","d","i","a">>, <<"C","u","s","t","o","m",".","4","x","6","i","n">>),
                  Opt(<<"M","e","d","i","a","T","y","p","e">>, <<"P","l","a","i","n">>) \o Opt(<<"p","r","i","n","t","-","q","u","a","l","i","t","y">>, <<"5">>)
                    \o Opt(<<"o","u","t","p","u","t","-","b","i","n">>, <<"f","a","c","e","-","u","p">>) } }

\* copies = ppdConvertOptions(request, ppd, pc, ...) for one of the jobs
ConvertOptions(jobs) ==
  /\ phase = "built"
  /\ pc # NullCache
  /\ \E job \in jobs :
     \E r \in {ppdConvertOptions(job.operation, last.ppd, MarksOf(last.ppd, job.marks),
                                 pc, job.media_col_sup, job.doc_handling_sup,
                                 job.print_color_mode_sup, job.user, job.format,
                                 job.copies, job.options)} :
        /\ last' = [op |-> "ConvertOptions", ppd |-> last.ppd, job |-> job,
                    request |-> r.request, copies |-> r.copies]
        /\ pc' = r.pc
  /\ phase' = "converted"
  /\ UNCHANGED held
  /\ QueryFrame

ConvertNext ==
  \/ BuildDevice(ConvertDevices)
  \/ ConvertOptions(ColorJobs)
  \/ ConvertOptions(CopyJobs)
  \/ ConvertOptions(OtherJobs)

ConvertSpec == Init /\ [][ConvertNext]_vars

\* the values of the attributes of a request with one of the names
ValuesOf(request, names) ==
  [k \in 1..Cardinality({i \in 1..Len(request) : request[i].name \in names}) |->
     request[CHOOSE i \in 1..Len(request) :
               /\ request[i].name \in names
               /\ Cardinality({j \in 1..i : request[j].name \in names}) = k].value]

\* the color attribute of a request
ColorNames == { <<"p","r","i","n","t","-","c","o","l","o","r","-","m","o","d","e">>, <<"o","u","t","p","u","t","-","m","o","d","e">> }

\* the job's marked choice of ColorModel, NullStr for none
MarkedColorModel ==
  ppdFindMarkedChoice(last.ppd, MarksOf(last.ppd, last.job.marks), <<"C","o","l","o","r","M","o","d","e","l">>)

\* the job's color mode resolves to monochrome: by the option ColorModel,
\* else by the marked choice of ColorModel, else by print-color-mode
ResolvesMonochrome ==
  /\ last.op = "ConvertOptions"
  /\ IF OptionValue(<<"C","o","l","o","r","M","o","d","e","l">>, last.job.options) # NullStr
       THEN OptionValue(<<"C","o","l","o","r","M","o","d","e","l">>, last.job.options) \in GrayModels
     ELSE IF MarkedColorModel # NullStr THEN MarkedColorModel \in GrayModels
     ELSE OptionValue(<<"p","r","i","n","t","-","c","o","l","o","r","-","m","o","d","e">>, last.job.options) = <<"m","o","n","o","c","h","r","o","m","e">>

Supported(keyword) == ippContainsString(last.job.print_color_mode_sup, keyword)

\* C24 as stated: a monochrome job is sent as "monochrome" whenever the
\* printer's list has "monochrome"; "auto-monochrome" or "process-monochrome"
\* is sent only when the list does not have "monochrome".
C24_MonochromeWhenSupported ==
  ResolvesMonochrome =>
    /\ Supported(<<"m","o","n","o","c","h","r","o","m","e">>) =>
         ValuesOf(last.request, ColorNames) = <<<<"m","o","n","o","c","h","r","o","m","e">>>>
    /\ ValuesOf(last.request, ColorNames) \in
         {<<<<"a","u","t","o","-","m","o","n","o","c","h","r","o","m","e">>>>, <<<<"p","r","o","c","e","s","s","-","m","o","n","o","c","h","r","o","m","e">>>>} =>
           ~Supported(<<"m","o","n","o","c","h","r","o","m","e">>)

\* C24: a monochrome job is sent as "auto-monochrome" whenever the printer's
\* list has it, also when the list has "monochrome"; else as
\* "process-monochrome" when the list has it and not "monochrome"; else as
\* "monochrome".
C24_AutoMonochromeFirst ==
  ResolvesMonochrome =>
    ValuesOf(last.request, ColorNames) =
      << IF Supported(<<"a","u","t","o","-","m","o","n","o","c","h","r","o","m","e">>) THEN <<"a","u","t","o","-","m","o","n","o","c","h","r","o","m","e">>
         ELSE IF Supported(<<"p","r","o","c","e","s","s","-","m","o","n","o","c","h","r","o","m","e">>) /\ ~Supported(<<"m","o","n","o","c","h","r","o","m","e">>)
           THEN <<"p","r","o","c","e","s","s","-","m","o","n","o","c","h","r","o","m","e">>
         ELSE <<"m","o","n","o","c","h","r","o","m","e">> >>

\* a monochrome job for a printer that has both "monochrome" and
\* "auto-monochrome" was converted
C24_Witness ==
  /\ ResolvesMonochrome
  /\ Supported(<<"m","o","n","o","c","h","r","o","m","e">>) /\ Supported(<<"a","u","t","o","-","m","o","n","o","c","h","r","o","m","e">>)
  /\ ValuesOf(last.request, ColorNames) = <<<<"a","u","t","o","-","m","o","n","o","c","h","r","o","m","e">>>>

Converted == last.op = "ConvertOptions"

\* the format is an image format of several pages or the raster format
MultiPageOrRaster(format) ==
  /\ format # NullStr
  /\ \/ ppd_strcasecmp(format, <<"a","p","p","l","i","c","a","t","i","o","n","/","v","n","d",".","c","u","p","s","-","r","a","s","t","e","r">>)
     \/ /\ ppd_strncasecmp(format, <<"i","m","a","g","e","/">>, 6)
        /\ ~ppd_strncasecmp(format, <<"i","m","a","g","e","/","x","-">>, 8)
        /\ \A f \in { <<"i","m","a","g","e","/","g","i","f">>, <<"i","m","a","g","e","/","j","p","2">>, <<"i","m","a","g","e","/","j","p","e","g">>, <<"i","m","a","g","e","/","p","n","g">>,
                      <<"i","m","a","g","e","/","t","i","f","f">> } : ~ppd_strcasecmp(format, f)

\* the printer's multiple-document-handling list is given and lacks the
\* keyword selected for the job
LacksHandling ==
  /\ last.job.doc_handling_sup.given
  /\ \A i \in 1..Len(last.job.doc_handling_sup.values) :
       last.job.doc_handling_sup.values[i] #
         CollateStr(last.job.format, last.job.options)

\* the larger of a number and 1
Max1(n) == IF n > 1 THEN n ELSE 1

\* ceil(a / b) for positive a and b
Ceil(a, b) == CHOOSE k \in 1..a : k * b >= a /\ (k - 1) * b < a

\* the option that holds the job's page count, NullStr for none
PagesOption ==
  IF OptionValue(<<"j","o","b","-","p","a","g","e","s">>, last.job.options) # NullStr
    THEN OptionValue(<<"j","o","b","-","p","a","g","e","s">>, last.job.options)
    ELSE OptionValue(<<"c","o","m",".","a","p","p","l","e",".","p","r","i","n","t",".","P","r","i","n","t","S","e","t","t","i","n","g","s",".","P","M","T","o","t","a","l","B","e","g","i","n","P","a","g","e","s",".",".","n",".">>,
                     last.job.options)

\* the pages of a set: the job's pages over the pages on a sheet, even when
\* the job has a "sides" option other than one-sided
PagesPerSet ==
  LET sheets == Ceil(Max1(atoi(PagesOption)),
                     IF OptionValue(<<"n","u","m","b","e","r","-","u","p">>, last.job.options) = NullStr THEN 1
                     ELSE Max1(atoi(OptionValue(<<"n","u","m","b","e","r","-","u","p">>, last.job.options))))
  IN  IF OptionValue(<<"s","i","d","e","s">>, last.job.options) \notin {NullStr, <<"o","n","e","-","s","i","d","e","d">>}
        THEN sheets + (sheets % 2) ELSE sheets

\* a finishing is among the attributes
FinishingEmitted ==
  \E i \in 1..Len(last.request) :
    last.request[i].name \in {<<"f","i","n","i","s","h","i","n","g","s">>, <<"f","i","n","i","s","h","i","n","g","s","-","c","o","l">>}

\* C28: ppdConvertOptions returns the caller's copy count or 1, and 1 is
\* forced exactly by a multi-page image or raster format or by a
\* multiple-document-handling list that lacks the selected keyword;
\* job-pages-per-set is sent only when the returned count differs from the
\* caller's, a finishing is sent and the job has a page count, and its value
\* is the pages over the pages per sheet, rounded up, and made even for a
\* "sides" option other than one-sided.
C28_CopiesAndPagesPerSet ==
  Converted =>
    /\ last.copies \in {last.job.copies, 1}
    /\ last.copies =
         IF MultiPageOrRaster(last.job.format) \/ LacksHandling
           THEN 1 ELSE last.job.copies
    /\ Len(ValuesOf(last.request, {<<"j","o","b","-","p","a","g","e","s","-","p","e","r","-","s","e","t">>})) <= 1
    /\ Len(ValuesOf(last.request, {<<"j","o","b","-","p","a","g","e","s","-","p","e","r","-","s","e","t">>})) = 1 =>
         /\ last.copies # last.job.copies
         /\ FinishingEmitted
         /\ PagesOption # NullStr
         /\ ValuesOf(last.request, {<<"j","o","b","-","p","a","g","e","s","-","p","e","r","-","s","e","t">>}) = <<PagesPerSet>>

\* the copies of a job of five pages, two on a sheet, on both sides, were
\* set to 1 and its pages per set were sent
C28_Witness ==
  /\ Converted
  /\ last.job.copies = 3 /\ last.copies = 1
  /\ OptionValue(<<"j","o","b","-","p","a","g","e","s">>, last.job.options) = <<"5">>
  /\ OptionValue(<<"n","u","m","b","e","r","-","u","p">>, last.job.options) = <<"2">>
  /\ OptionValue(<<"s","i","d","e","s">>, last.job.options) = <<"t","w","o","-","s","i","d","e","d","-","l","o","n","g","-","e","d","g","e">>
  /\ ValuesOf(last.request, {<<"j","o","b","-","p","a","g","e","s","-","p","e","r","-","s","e","t">>}) = <<4>>

\* the properties and options of preset i of the description that was built
PresetOf(i) == ppdParseAll(Words(last.ppd.attrs[i].value), <<>>)

\* the explicit presets that are usable: they name a quality, and unless it
\* is "high" they are not for photos and their coating is none or autodetect
UsablePresets ==
  {i \in 1..Len(last.ppd.attrs) :
     /\ last.ppd.attrs[i].name = "APPrinterPreset"
     /\ OptionValue(<<"c","o","m",".","a","p","p","l","e",".","p","r","i","n","t",".","p","r","e","s","e","t",".","q","u","a","l","i","t","y">>, PresetOf(i)) # NullStr
     /\ \/ OptionValue(<<"c","o","m",".","a","p","p","l","e",".","p","r","i","n","t",".","p","r","e","s","e","t",".","q","u","a","l","i","t","y">>, PresetOf(i)) = <<"h","i","g","h">>
        \/ /\ OptionValue(<<"c","o","m",".","a","p","p","l","e",".","p","r","i","n","t",".","p","r","e","s","e","t",".","g","r","a","p","h","i","c","s","T","y","p","e">>, PresetOf(i)) # <<"P","h","o","t","o">>
           /\ OptionValue(<<"c","o","m",".","a","p","p","l","e",".","p","r","i","n","t",".","p","r","e","s","e","t",".","m","e","d","i","a","-","f","r","o","n","t","-","c","o","a","t","i","n","g">>, PresetOf(i))
                \in {NullStr, <<"n","o","n","e">>, <<"a","u","t","o","d","e","t","e","c","t">>}}

\* the quality cell of a usable preset
QualityOf(i) ==
  IF OptionValue(<<"c","o","m",".","a","p","p","l","e",".","p","r","i","n","t",".","p","r","e","s","e","t",".","q","u","a","l","i","t","y">>, PresetOf(i)) = <<"l","o","w">> THEN 0
  ELSE IF OptionValue(<<"c","o","m",".","a","p","p","l","e",".","p","r","i","n","t",".","p","r","e","s","e","t",".","q","u","a","l","i","t","y">>, PresetOf(i)) = <<"h","i","g","h">> THEN 2
  ELSE 1

\* a usable preset is for monochrome
IsMonoPreset(i) ==
  IF OptionValue(<<"c","o","m",".","a","p","p","l","e",".","p","r","i","n","t",".","p","r","e","s","e","t",".","o","u","t","p","u","t","-","m","o","d","e">>, PresetOf(i)) # NullStr
    THEN OptionValue(<<"c","o","m",".","a","p","p","l","e",".","p","r","i","n","t",".","p","r","e","s","e","t",".","o","u","t","p","u","t","-","m","o","d","e">>, PresetOf(i)) = <<"m","o","n","o","c","h","r","o","m","e">>
    ELSE OptionValue(<<"C","o","l","o","r","M","o","d","e","l">>, PresetOf(i)) # NullStr /\
         ppd_strcasecmp(OptionValue(<<"C","o","l","o","r","M","o","d","e","l">>, PresetOf(i)), <<"G","r","a","y">>)

MonoDerived == \E i \in UsablePresets : IsMonoPreset(i)

\* the presets are those of the scoring heuristic
HeuristicRun ==
  /\ pc.presets = ppdCacheAssignPresets(last.ppd, EmptyCache).presets
  /\ pc.optimize_presets = ppdCacheAssignPresets(last.ppd, EmptyCache).optimize_presets

Built == phase = "built" /\ last.op = "build" /\ pc # NullCache

\* C25 as stated: the heuristic is run without a usable explicit preset, and
\* also with explicit presets on a color device when no monochrome cell was
\* derived from them; it is not run when they gave a monochrome cell.
C25_HeuristicForMissingMonochrome ==
  Built =>
    /\ UsablePresets = {} => HeuristicRun
    /\ UsablePresets # {} /\ last.ppd.color_device /\ ~MonoDerived => HeuristicRun
    /\ MonoDerived => ~HeuristicRun

\* C25: the heuristic is run exactly when the description has no usable
\* explicit preset.  With a usable preset the cells come from the presets
\* alone: a cell is set only for a quality a usable preset has, or for
\* monochrome at normal quality; that holds also on a color device without a
\* monochrome cell of the presets, where the monochrome cells are the color
\* cells with the gray choice.
C25_HeuristicOnlyWithoutPresets ==
  Built =>
    /\ UsablePresets = {} => HeuristicRun
    /\ UsablePresets # {} =>
         /\ ~HeuristicRun
         /\ \A i \in 0..4 : pc.optimize_presets[i] = NullStr
         /\ \A q \in 0..2 :
              /\ pc.presets[1][q] # NullStr =>
                   \E i \in UsablePresets : QualityOf(i) = q /\ ~IsMonoPreset(i)
              /\ pc.presets[0][q] # NullStr =>
                   \/ \E i \in UsablePresets : QualityOf(i) = q
                   \/ q = 1
         /\ ~MonoDerived =>
              \A q \in 0..2 :
                pc.presets[1][q] # NullStr =>
                  pc.presets[0][q] = <<"C","o","l","o","r","M","o","d","e","l","=","G","r","a","y">>

\* a color device with explicit presets of which none is for monochrome was
\* built, and its presets are not those of the heuristic
C25_Witness ==
  /\ Built
  /\ UsablePresets # {} /\ last.ppd.color_device /\ ~MonoDerived
  /\ ~HeuristicRun
  /\ pc.presets[0][1] = <<"C","o","l","o","r","M","o","d","e","l","=","G","r","a","y">>
  /\ pc.presets[0][0] = NullStr

\* the options of the built description that the heuristic scores
Scored ==
  {j \in 1..Len(last.ppd.options) :
     /\ ~strncasecmp(last.ppd.options[j].group, <<"I","n","s","t","a","l","l","a","b","l","e">>, 11)
     /\ ~AnyOf(last.ppd.options[j].name, SkippedOptions)
     /\ ~CompositeMember(last.ppd, last.ppd.options[j])}

\* the properties of the choices of option j
PropsOf(j) == OptionProperties(last.ppd, last.ppd.options[j])

\* the choices a cell has for the option of a name, in the order of the cell
CellChoices(text, o) ==
  IF text = NullStr THEN <<>>
  ELSE LET Sets(w) == Len(w) > Len(o) /\ SubSeq(w, 1, Len(o)) = o /\ w[Len(o) + 1] = "="
           words   == SelectSeq(Words(text), Sets)
       IN  [i \in 1..Len(words) |-> Drop(words[i], Len(o) + 1)]

\* the choices a pass may select for cell [cm][q]: eligible, with a score
Candidates(props, cm, q, pass) ==
  {k \in 1..Len(props) :
     Eligible(props[k], cm, q, pass) /\ Score(props[k], cm, q) > 0}

\* the passes that yield a choice for cell [cm][q]
Yielding(props, cm, q) == {pass \in 0..2 : Candidates(props, cm, q, pass) # {}}

\* the first of the highest-scoring choices of a set
Highest(props, cm, q, ks) ==
  CHOOSE k \in ks :
    \A j \in ks : \/ Score(props[j], cm, q) < Score(props[k], cm, q)
                  \/ (Score(props[j], cm, q) = Score(props[k], cm, q) /\ k <= j)

\* the choice of the earliest pass that yields one; 0 for none
Selected(props, cm, q) ==
  IF Yielding(props, cm, q) = {} THEN 0
  ELSE Highest(props, cm, q,
         Candidates(props, cm, q,
           CHOOSE p \in Yielding(props, cm, q) :
             \A r \in Yielding(props, cm, q) : p <= r))

\* the declared default of option j is one of its choices
DefaultListed(j) ==
  \E k \in 1..Len(last.ppd.options[j].choices) :
     last.ppd.options[j].choices[k] = last.ppd.options[j].defchoice

\* the heuristic has filled the presets of the built description
HeuristicBuilt == Built /\ UsablePresets = {}

\* cell [cm][q] has exactly the selected choice of option j, else its
\* declared default
CellFilled(j, cm, q) ==
  CellChoices(pc.presets[cm][q], last.ppd.options[j].name) =
    << IF Selected(PropsOf(j), cm, q) > 0
         THEN last.ppd.options[j].choices[Selected(PropsOf(j), cm, q)]
         ELSE last.ppd.options[j].defchoice >>

\* C26: for every option classified as setting color mode or print quality,
\* each of the six cells has exactly one choice of the option: the
\* highest-scoring eligible choice of the earliest of the three passes that
\* yields one, otherwise the declared default choice, whatever the declared
\* default is.
C26_NoPartialGrid ==
  HeuristicBuilt =>
    \A j \in Scored : SetsGrid(PropsOf(j)) =>
      \A cm \in 0..1, q \in 0..2 : CellFilled(j, cm, q)

\* C26 as amended: the same when the declared default is one of the choices
\* of the option; when it names none of them, a cell for which no pass
\* yields a choice does not get the option, the other cells get the choice
\* of their pass.
C26_NoPartialGridListedDefault ==
  HeuristicBuilt =>
    \A j \in Scored : SetsGrid(PropsOf(j)) =>
      \A cm \in 0..1, q \in 0..2 :
        IF DefaultListed(j) \/ Selected(PropsOf(j), cm, q) > 0
          THEN CellFilled(j, cm, q)
          ELSE CellChoices(pc.presets[cm][q], last.ppd.options[j].name) = <<>>

\* an option with the choices Draft and High whose default is Draft has been
\* scored: the draft cells got Draft in the first pass, the high cells High,
\* and the normal cells the default
C26_Witness ==
  /\ HeuristicBuilt
  /\ Len(last.ppd.options) = 1 /\ Scored = {1} /\ SetsGrid(PropsOf(1))
  /\ last.ppd.options[1].choices = <<<<"D","r","a","f","t">>, <<"H","i","g","h">>>>
  /\ last.ppd.options[1].defchoice = <<"D","r","a","f","t">>
  /\ \A cm \in 0..1 : /\ pc.presets[cm][0] = <<"P","r","i","n","t","Q","u","a","l","i","t","y","=","D","r","a","f","t">>
                      /\ pc.presets[cm][1] = <<"P","r","i","n","t","Q","u","a","l","i","t","y","=","D","r","a","f","t">>
                      /\ pc.presets[cm][2] = <<"P","r","i","n","t","Q","u","a","l","i","t","y","=","H","i","g","h">>
  /\ Yielding(PropsOf(1), 0, 1) = {}

\* the composite members among the options of the built description, in a
\* group that is not one of installable options
Members ==
  {j \in 1..Len(last.ppd.options) :
     /\ ~strncasecmp(last.ppd.options[j].group, <<"I","n","s","t","a","l","l","a","b","l","e">>, 11)
     /\ ~AnyOf(last.ppd.options[j].name, SkippedOptions)
     /\ CompositeMember(last.ppd, last.ppd.options[j])}

\* the presets of the finished cache
AllPresets ==
  {pc.presets[cm][q] : cm \in 0..1, q \in 0..2} \cup {pc.optimize_presets[i] : i \in 0..4}

\* the name X of the composite option of member j
CompositeOf(j) == Drop(last.ppd.options[j].choices[1], 4)

\* in a preset, member j has no choice of its own, and the choice From<X>
\* when the preset sets X
Controlled(text, j) ==
  CellChoices(text, last.ppd.options[j].name) =
    IF CellChoices(text, CompositeOf(j)) # <<>>
      THEN <<last.ppd.options[j].choices[1]>> ELSE <<>>

\* C27: a member option of a Foomatic composite option X is never scored on
\* its own, and every cell and content-optimization preset of the finished
\* cache that sets X also sets the member to From<X>, whatever the order of
\* the two options in the description.
C27_CompositeControls ==
  HeuristicBuilt => \A j \in Members : \A text \in AllPresets : Controlled(text, j)

(***************************************************************************)
(* The raster error buffer (raster-error.c).  Allocations succeed.         *)
(***************************************************************************)
\* sizeof(s), the message string of _ppdRasterAddError
MessageSize == 2048

\* the structure _ppdRasterClearError allocates: no buffer yet
EmptyBuf == [at |-> "heap", start |-> "NULL", size |-> 0, text |-> <<>>]

\* _ppdRasterAddError(f, ...) on the structure b, message being the text
\* vsnprintf formats: size is end - start, text what lies between start and
\* current
ppdRasterAddError(b, message) ==
  IF Len(message) <= 0 THEN b
  ELSE IF Len(message) + 1 >= MessageSize THEN b
  ELSE IF Len(message) + 1 > b.size - Len(b.text)
    THEN [b EXCEPT !.start = "heap",
                   !.size = b.size + 2 * (Len(message) + 1) + 1024,
                   !.text = b.text \o message]
  ELSE [b EXCEPT !.text = b.text \o message]

\* _ppdRasterClearError()
ppdRasterClearError(b) ==
  IF b.at = "NULL" THEN EmptyBuf ELSE [b EXCEPT !.text = <<>>]

\* _ppdRasterErrorString() on the structure b
ppdRasterErrorString(b) == IF Len(b.text) = 0 THEN NullStr ELSE b.text

\* how many messages the caller adds before it clears the buffer
MaxErrors == 2

\* a message of n characters
Long(n) == [i \in 1..n |-> "x"]

\* the messages of the caller: empty, short, the longest that fits the
\* message string and the shortest that does not
Messages == {<<>>, <<"a">>, <<"b","c">>, Long(MessageSize - 2), Long(MessageSize - 1)}

\* the calls of the raster functions leave the cache and its file alone
RasterFrame ==
  UNCHANGED <<catalog, pc, file, temp, written, tamper, ppd_cache_status_message, held>>

\* what a call that dereferences the NULL pointer buf may do to the process
NullOutcomes == {"crash", "returns"}

\* _ppdRasterClearError();
RasterClearError ==
  /\ phase \in {"idle", "raster"}
  /\ raster_buf' = ppdRasterClearError(raster_buf)
  /\ errors' = <<>>
  /\ last' = [op |-> "ClearError", safe |-> TRUE, ret |-> NullStr]
  /\ phase' = "raster"
  /\ RasterFrame

\* _ppdRasterAddError("%s", message); buf->end is read through buf, also
\* when buf is still NULL
RasterAddError ==
  /\ phase \in {"idle", "raster"}
  /\ Len(errors) < MaxErrors
  /\ \E message \in Messages :
       /\ errors' = Append(errors, message)
       /\ IF raster_buf.at = "NULL" /\ Len(message) > 0 /\ Len(message) + 1 < MessageSize
            THEN \E outcome \in NullOutcomes :
                   /\ raster_buf' = raster_buf
                   /\ last' = [op |-> "AddError", safe |-> FALSE, ret |-> NullStr]
                   /\ phase' = IF outcome = "crash" THEN "crashed" ELSE "raster"
            ELSE /\ raster_buf' = ppdRasterAddError(raster_buf, message)
                 /\ last' = [op |-> "AddError", safe |-> TRUE, ret |-> NullStr]
                 /\ phase' = "raster"
  /\ RasterFrame

\* s = _ppdRasterErrorString(); buf->current is read through buf, also when
\* buf is still NULL
RasterErrorString ==
  /\ phase \in {"idle", "raster"}
  /\ IF raster_buf.at = "NULL"
       THEN \E outcome \in NullOutcomes, ret \in {NullStr, <<"?">>} :
              /\ last' = [op |-> "ErrorString", safe |-> FALSE, ret |-> ret]
              /\ phase' = IF outcome = "crash" THEN "crashed" ELSE "raster"
       ELSE /\ last' = [op |-> "ErrorString", safe |-> TRUE,
                        ret |-> ppdRasterErrorString(raster_buf)]
            /\ phase' = "raster"
  /\ UNCHANGED <<raster_buf, errors>>
  /\ RasterFrame

RasterNext ==
  \/ RasterClearError
  \/ RasterAddError
  \/ RasterErrorString

RasterSpec == Init /\ [][RasterNext]_vars

\* the messages added since the last clear, one after the other
RECURSIVE Concatenated(_)
Concatenated(messages) ==
  IF Len(messages) = 0 THEN <<>>
  ELSE Head(messages) \o Concatenated(Tail(messages))

\* C29: in any sequence of calls of _ppdRasterClearError, _ppdRasterAddError
\* and _ppdRasterErrorString every call is safe, and _ppdRasterErrorString
\* returns NULL if and only if no non-empty message has been added since the
\* last clear (or since the start of the program), otherwise the messages
\* added since the last clear, concatenated in the order of the calls.
C29_ErrorBuffer ==
  /\ last.op \in {"ClearError", "AddError", "ErrorString"} => last.safe
  /\ last.op = "ErrorString" =>
       last.ret = IF Len(Concatenated(errors)) = 0 THEN NullStr
                  ELSE Concatenated(errors)

\* the InputSlot names of the PWG media-source keywords
SlotTable ==
  { <<<<"m","a","i","n">>, <<"C","a","s","s","e","t","t","e">>>>, <<<<"a","l","t","e","r","n","a","t","e">>, <<"M","u","l","t","i","p","u","r","p","o","s","e">>>>,
    <<<<"l","a","r","g","e","-","c","a","p","a","c","i","t","y">>, <<"L","a","r","g","e","C","a","p","a","c","i","t","y">>>>, <<<<"b","o","t","t","o","m">>, <<"L","o","w","e","r">>>>,
    <<<<"m","i","d","d","l","e">>, <<"M","i","d","d","l","e">>>>, <<<<"t","o","p">>, <<"U","p","p","e","r">>>>, <<<<"r","e","a","r">>, <<"R","e","a","r">>>>,
    <<<<"s","i","d","e">>, <<"S","i","d","e">>>>, <<<<"e","n","v","e","l","o","p","e">>, <<"E","n","v","e","l","o","p","e">>>>, <<<<"m","a","i","n","-","r","o","l","l">>, <<"R","o","l","l">>>>,
    <<<<"a","l","t","e","r","n","a","t","e","-","r","o","l","l">>, <<"R","o","l","l","2">>>> }

\* a call of ppdPwgInputSlotForSource with valid arguments has returned
SlotCall ==
  /\ last.op = "InputSlotForSource"
  /\ last.media_source # NullStr /\ last.name # "NULL"
  /\ last.namesize >= PPD_MAX_NAME

\* C30: ppdPwgInputSlotForSource returns the InputSlot name of the table for
\* a media-source keyword of the table, whatever the case of its letters,
\* and the ppdized keyword for any other; so for every choice Cassette,
\* LargeCapacity or Roll of the description, the name returned for the
\* keyword the cache maps it to is that choice.
C30_InputSlotForSource ==
  SlotCall =>
    /\ \A row \in SlotTable :
         ppd_strcasecmp(last.media_source, row[1]) => last.ret = row[2]
    /\ (\A row \in SlotTable : ~ppd_strcasecmp(last.media_source, row[1]))
         => last.ret = ppdPwgPpdizeName(last.media_source, last.namesize)
    /\ \A i \in 1..Len(pc.sources) :
         (/\ pc.sources[i].ppd \in {<<"C","a","s","s","e","t","t","e">>, <<"L","a","r","g","e","C","a","p","a","c","i","t","y">>, <<"R","o","l","l">>}
          /\ pc.sources[i].pwg = last.media_source)
           => last.ret = pc.sources[i].ppd
====
